---- MODULE Spec2Model ----
(***************************************************************************)
(* The aws_kinesis input of benthos (kinesisReader): shard-balanced        *)
(* consumers that coordinate through a checkpoint table.                   *)
(*                                                                         *)
(* Each client runs one shard-allocation loop (runBalancedShards) and one  *)
(* consumer goroutine per claimed shard (runConsumer).  Every call that    *)
(* crosses the network (table reads and writes, record pulls) is one       *)
(* atomic step; the steps of different goroutines interleave freely.       *)
(*                                                                         *)
(* The checkpoint table (awsKinesisCheckpointer) and the record batcher    *)
(* (awsKinesisRecordBatcher) are called by the source but not part of it;  *)
(* they are modelled from the design document and from the way the source  *)
(* calls them.                                                             *)
(***************************************************************************)
EXTENDS Integers, FiniteSets, Sequences, TLC

\* ---------------------------------------------------------------- bounds

\* Records in a shard carry the sequence numbers 1..MaxSeq; 0 is "no sequence".
MaxSeq == 2
\* At most MaxFaults consumers fail to start.
MaxFaults == 1
\* Upstream sends the transactions 1..MaxTrans to an output.
MaxTrans == 3
\* A processor is given at most MaxMsgs messages, in batches of at most MaxBatch.
MaxMsgs == 4
MaxBatch == 2
\* The handlers of the dynamic broker's API return at most MaxReturns times.
MaxReturns == 2
\* A batch written to aws_sqs has at most MaxSqsBatch messages and WriteBatch
\* issues at most MaxSends requests.
MaxSqsBatch == 7
MaxSends == 4
\* A message has at most MaxKeys metadata keys.
MaxKeys == 14
\* A NATS driver opens at most MaxConns connections and is asked to write or
\* read at most MaxOps times.
MaxConns == 2
MaxOps == 3
\* The bucket read by gcp_cloud_storage holds at most MaxObjects objects.
MaxObjects == 3
\* system_close_timeout is at most MaxTimeout seconds (0: not configured) and
\* system_close_delay at most MaxDelay seconds.
MaxTimeout == 2
MaxDelay == 1
\* The clock of a lease run advances to MaxNow at most.
MaxNow == 4
\* A prefix holds at most MaxListed objects and the listing fails at most
\* MaxListErrs times.
MaxListed == 5
MaxListErrs == 2
\* The PullRunner bootstraps at most MaxBoots times and the session hands out
\* the main configs 1..MaxConf.
MaxBoots == 3
MaxConf == 2
\* lease_period, in clock ticks.
LeasePeriod == 1
\* The most entries of one SendMessageBatch request: 10 in the source, scaled
\* down so that batches of more than two requests stay small.
sqsMaxRecordsCount == 3
\* The most attributes of a message: getSQSAttributes stops at index 9.
sqsAttributeLimit == 10
\* The most objects fetched from the listing at a time: 100 in the source,
\* scaled down so that a listing of a few objects has several pages.
maxGCPCloudStorageListObjectsResults == 2
\* Seconds: the deadline of a shutdown without a configured timeout, and the
\* deadline Stop gives to leaving the session.
defaultCloseDeadline == 30
LeaveTimeout == 1

Clients == {"c1", "c2"}
NoClient == "none"
AllShards == {1, 2, 3, 4}
Seqs == 0..MaxSeq
IterEnd == MaxSeq + 1

\* ----------------------------------------------------------------- state

VARIABLES
    now,          \* wall clock; it stands still: the model spans less than a lease
    shards,       \* the shards ListShards returns for the stream
    finished,     \* shards whose sequence range has an end (closed shards)
    streamLen,    \* streamLen[s]: the records 1..streamLen[s] exist in shard s
    row,          \* checkpoint table: row[s] = [client, seq, lease]
    msgChan,      \* msgChan[c]: "nil" | "open" | "closed"
    ctxDone,      \* ctxDone[c]: k.ctx has been cancelled (k.done() called)
    closeRet,     \* closeRet[c]: "none" | "waiting" | "nil" | "ctxerr"
    closes,       \* closes[c]: how many times msgChan/closedChan were closed
    alloc,        \* alloc[c]: the allocation goroutine (runBalancedShards):
                  \*   pc        "idle" | "pass" | "claiming" | "stealing" |
                  \*             "waiting" | "done"
                  \*   unclaimed the unclaimedShards map still to iterate
                  \*   claims    clientClaims as read by AllClaims
                  \*   left      the other clients still to iterate
                  \*   log       <<selfClaims, len(claims)>> of the steal just tried
                  \*   ended     the shards the listing of a claiming pass reported
                  \*             as finished
    cstate,       \* cstate[c][s]: state of the consumer goroutine
    startSeq,     \* startSeq[c][s]: startingSequence, kept while initErr is pending
    iter,         \* iter[c][s]: the iterator reads after this sequence; IterEnd is ""
    pendHi,       \* pendHi[c][s]: highest sequence pulled
    sentHi,       \* sentHi[c][s]: highest sequence handed to the message channel
    flight,       \* flight[c][s]: sequences delivered and not yet acknowledged
    held,         \* held[c][s]: lease timeout last written by c for s
    ackedNil,     \* ackedNil[s]: sequences acknowledged with a nil error
    startFromOldest, \* conf.StartFromOldest (start_from_oldest)
    faults,       \* environment: how many more consumers may fail to start
    closers,      \* environment: the clients whose owner calls Close
    drop,         \* the drop_on output: its flags, the transaction it holds and
                  \*   the responses it has sent upstream
    dedupe,       \* the dedupe processor: drop_on_err, the cache, the messages
                  \*   it was given and the batches it returned
    dyn,          \* a dynamic broker: its children, the configurations of the
                  \*   update handler, the Set request and the transactions
    sqs,         \* the aws_sqs output: its client, the WriteBatch call under way,
                  \*   the context and what the queue has accepted
    nats,        \* a NATS driver: its connection fields, the connections it has
                  \*   opened and the Write or Read under way
    gcs,         \* the gcp_cloud_storage input: delete_objects, the listed objects,
                  \*   the object being read and the objects deleted from the bucket
    svc,         \* the service being shut down: the configured delay and timeout,
                  \*   the step of Stop, the time since Stop was called and what is stopped
    keyReader,   \* the target reader of gcp_cloud_storage: the listing, its
                  \*   iterator, the pending targets and what Pop has returned
    pull         \* the studio PullRunner: its deployment flag, the latest
                  \*   main config, its config reader, manager and stream

tableVars == <<now, row>>
streamVars == <<shards, finished, streamLen, closers, startFromOldest>>
readerVars == <<msgChan, ctxDone, closeRet, closes>>
recordVars == <<startSeq, iter, pendHi, sentHi, flight>>
consVars == <<cstate, startSeq, iter, pendHi, sentHi, flight, held>>
\* The state of the aws_kinesis input.
kinesisVars ==
    <<now, shards, finished, streamLen, startFromOldest, faults, closers, row,
      msgChan, ctxDone, closeRet, closes, alloc, cstate, startSeq, iter, pendHi,
      sentHi, flight, held, ackedNil>>
\* The state of the other components.
otherVars == <<drop, dedupe, dyn, sqs, nats, gcs, svc, keyReader, pull>>
\* Everything but the drop_on output, and everything but the dedupe processor.
notDrop == <<kinesisVars, dedupe, dyn, sqs, nats, gcs, svc, keyReader, pull>>
notDedupe == <<kinesisVars, drop, dyn, sqs, nats, gcs, svc, keyReader, pull>>
\* Everything but the dynamic broker.
notDyn == <<kinesisVars, drop, dedupe, sqs, nats, gcs, svc, keyReader, pull>>
notSqs == <<kinesisVars, drop, dedupe, dyn, nats, gcs, svc, keyReader, pull>>
notNats == <<kinesisVars, drop, dedupe, dyn, sqs, gcs, svc, keyReader, pull>>
notGcs == <<kinesisVars, drop, dedupe, dyn, sqs, nats, svc, keyReader, pull>>
notSvc == <<kinesisVars, drop, dedupe, dyn, sqs, nats, gcs, keyReader, pull>>
notKeyReader == <<kinesisVars, drop, dedupe, dyn, sqs, nats, gcs, svc, pull>>
notPull == <<kinesisVars, drop, dedupe, dyn, sqs, nats, gcs, svc, keyReader>>
vars == <<kinesisVars, otherVars>>

\* --------------------------------------------------------------- helpers

MinOf(S) == CHOOSE x \in S : \A y \in S : x <= y

FreeRow == [client |-> NoClient, seq |-> 0, lease |-> 0]

Running == {"Consuming", "Finished"}

NoClaims == [d \in Clients |-> {}]

\* The allocation goroutine at position pc with no pass in progress.
AllocAt(pc) ==
    [pc |-> pc, unclaimed |-> {}, claims |-> NoClaims, left |-> {}, log |-> <<>>,
     ended |-> {}]

StayInPass(a) == a

\* The pass is over: the goroutine sleeps until the next one.
EndPass(a) == [AllocAt("pass") EXCEPT !.log = a.log]

\* ------------------------------------------------- checkpointer (table)

\* Claim: conditional insert-or-update keyed on the owner the caller saw
\* (NoClient: no owner).  Succeeds iff the row still names that owner, and
\* fails with ErrLeaseNotAcquired otherwise.
ClaimOK(s, from) == row[s].client = from

ClaimedRow(c, s) == [row[s] EXCEPT !.client = c, !.lease = now + LeasePeriod]

\* Checkpoint: conditional on the caller still being the owner.
StillOwned(c, s) == row[s].client = c

CheckpointRow(c, s, sequence, final) ==
    IF final
    THEN [client |-> NoClient, seq |-> sequence, lease |-> now]
    ELSE [client |-> c, seq |-> sequence, lease |-> now + LeasePeriod]

\* Yield: stores the sequence with leaseTimeout = now; the owner stays.
YieldRow(s, sequence) == [row[s] EXCEPT !.seq = sequence, !.lease = now]

\* AllClaims: the shards each client holds in the table.
AllClaims == [d \in Clients |-> {s \in shards : row[s].client = d}]

\* ------------------------------------------------------- record batcher

\* GetSequence: the highest sequence below which everything is acknowledged.
GetSequence(c, s) ==
    IF flight[c][s] = {} THEN sentHi[c][s] ELSE MinOf(flight[c][s]) - 1

\* ------------------------------------------------------------- consumers

FinishedAtOnce(c, s) == cstate[c][s] = "Finished"

\* Finished with every pulled record handed over: the loop returns before it
\* reaches the select again.
Drained(c, s) == cstate[c][s] = "Finished" /\ pendHi[c][s] = sentHi[c][s]

NoInit(c) == \A s \in AllShards : cstate[c][s] # "Init"

ResetConsumer(c, s) ==
    /\ cstate' = [cstate EXCEPT ![c][s] = "None"]
    /\ startSeq' = [startSeq EXCEPT ![c][s] = 0]
    /\ iter' = [iter EXCEPT ![c][s] = 0]
    /\ pendHi' = [pendHi EXCEPT ![c][s] = 0]
    /\ sentHi' = [sentHi EXCEPT ![c][s] = 0]
    /\ flight' = [flight EXCEPT ![c][s] = {}]
    /\ held' = [held EXCEPT ![c][s] = 0]

\* ------------------------------------------------- other components

\* The drop_on output after construction, before any transaction.
DropIdle ==
    [error |-> FALSE, backPressure |-> FALSE, phase |-> "idle", txn |-> 0,
     took |-> {}, childRes |-> [t \in 1..MaxTrans |-> "none"],
     resp |-> [t \in 1..MaxTrans |-> <<>>]]

\* The dedupe processor after construction, with an empty cache.
DedupeIdle ==
    [dropOnErr |-> TRUE, cache |-> {}, input |-> <<>>, out |-> <<>>,
     calls |-> 0, errs |-> 0]

\* The identifiers of a dynamic broker's children.
Ids == {"a", "b"}
\* The requests the admin API serves at the same time.
Handlers == {1, 2}

NoReq == [st |-> "idle", id |-> "a", gen |-> 0, busy |-> FALSE]
NoTran == [t |-> 0, targets |-> {}, nils |-> {}, errs |-> {}, done |-> FALSE]

\* A dynamic broker without children.
DynIdle ==
    [kind |-> "output", child |-> [i \in Ids |-> 0], configs |-> [i \in Ids |-> 0],
     started |-> [i \in Ids |-> 0], gen |-> 1, req |-> NoReq, inflight |-> {},
     cur |-> NoTran, nextT |-> 1, resp |-> [t \in 1..MaxTrans |-> "none"],
     lastErr |-> "none", lastId |-> "a", returns |-> 0,
     up |-> [i \in Ids |-> FALSE],
     hs |-> [h \in Handlers |-> [st |-> "idle", id |-> "a", gen |-> 0]]]

\* The aws_sqs output after newSQSWriter, before any WriteBatch.
SqsIdle ==
    [connected |-> FALSE, pc |-> "idle", n |-> 0, input |-> <<>>, entries |-> <<>>,
     err |-> "nil", ret |-> "none", stop |-> FALSE, ctxDone |-> FALSE,
     closed |-> FALSE, sends |-> 0, accepted |-> {}, whole |-> FALSE,
     partial |-> FALSE, meta |-> {}, exclude |-> {}, walked |-> FALSE,
     attrs |-> {}]

\* A NATS driver after construction: no connection, nothing under way.
NatsIdle ==
    [kind |-> "kv_out", natsConn |-> 0, handle |-> 0, open |-> {}, conns |-> 0,
     op |-> [pc |-> "idle", h |-> 0, ret |-> "none"], ops |-> 0, closed |-> FALSE,
     connRet |-> "none"]

\* The gcp_cloud_storage input before Connect: nothing listed.
GcsIdle ==
    [del |-> FALSE, listed |-> 0, next |-> 1, object |-> 0, obj |-> <<>>,
     deleted |-> {}, ret |-> "none"]

\* A running service, nobody has asked it to stop.
SvcIdle ==
    [timeout |-> 0, delay |-> 0, mgr |-> FALSE, pc |-> "running", elapsed |-> 0,
     since |-> 0, streamStopped |-> FALSE, mgrStopped |-> FALSE, dumped |-> FALSE,
     ret |-> "none", produced |-> 0, written |-> 0, acked |-> 0, code |-> -1]

\* No target reader yet: Connect has not built one.
KeyReaderIdle ==
    [n |-> 0, made |-> FALSE, it |-> 0, startAfter |-> FALSE, pending |-> <<>>,
     popped |-> <<>>, ret |-> "none", errs |-> 0, done |-> FALSE, broke |-> FALSE]

\* The PullRunner as NewPullRunner builds it, before its first bootstrap: no
\* config reader, no manager, the no-op stopper as its stream.
PullIdle ==
    [pc |-> "new", isDisabled |-> FALSE, latestMainConf |-> 0, confReader |-> 0,
     mgr |-> 0, stoppableMgr |-> 0,
     stoppableStream |-> [conf |-> 0, mgr |-> 0, up |-> FALSE],
     boots |-> 0, closed |-> {}, stopped |-> {},
     op |-> "none", ret |-> "none", to |-> FALSE, main |-> 0]

\* The components next to the aws_kinesis input are not in use.
OthersIdle ==
    /\ drop = DropIdle
    /\ dedupe = DedupeIdle
    /\ dyn = DynIdle
    /\ sqs = SqsIdle
    /\ nats = NatsIdle
    /\ gcs = GcsIdle
    /\ svc = SvcIdle
    /\ keyReader = KeyReaderIdle
    /\ pull = PullIdle

\* ------------------------------------------------------------------ init

TypeOK ==
    /\ now = 0
    /\ shards \subseteq AllShards
    /\ row \in [AllShards -> [client : Clients \cup {NoClient}, seq : Seqs,
                              lease : 0..LeasePeriod]]

\* The state after construction: nothing connected, an empty table.
InitCommon ==
    /\ now = 0
    /\ row = [s \in AllShards |-> FreeRow]
    /\ ctxDone = [c \in Clients |-> FALSE]
    /\ closeRet = [c \in Clients |-> "none"]
    /\ closes = [c \in Clients |-> 0]
    /\ cstate = [c \in Clients |-> [s \in AllShards |-> "None"]]
    /\ startSeq = [c \in Clients |-> [s \in AllShards |-> 0]]
    /\ iter = [c \in Clients |-> [s \in AllShards |-> 0]]
    /\ pendHi = [c \in Clients |-> [s \in AllShards |-> 0]]
    /\ sentHi = [c \in Clients |-> [s \in AllShards |-> 0]]
    /\ flight = [c \in Clients |-> [s \in AllShards |-> {}]]
    /\ held = [c \in Clients |-> [s \in AllShards |-> 0]]
    /\ ackedNil = [s \in AllShards |-> {}]

\* Both clients have connected.
InitConnected ==
    /\ InitCommon
    /\ msgChan = [c \in Clients |-> "open"]
    /\ alloc = [c \in Clients |-> AllocAt("pass")]

\* Shard 1 carries the records 1..MaxSeq, the other shards none.
Records == [s \in AllShards |-> IF s = 1 THEN MaxSeq ELSE 0]

NoRecords == [s \in AllShards |-> 0]

\* Two connected clients, two open shards with records in the first; either
\* client can be shut down, every consumer starts.
Init ==
    /\ InitConnected
    /\ shards = {1, 2}
    /\ finished = {}
    /\ streamLen = Records
    /\ faults = 0
    /\ closers = Clients
    /\ startFromOldest = TRUE
    /\ OthersIdle

\* Nothing is connected yet; two open shards with records in the first.  The
\* first reader is the one that gets closed.
InitClose ==
    /\ InitCommon
    /\ msgChan = [c \in Clients |-> "nil"]
    /\ alloc = [c \in Clients |-> AllocAt("idle")]
    /\ shards = {1, 2}
    /\ finished = {}
    /\ streamLen = Records
    /\ faults = 0
    /\ closers = {"c1"}
    /\ startFromOldest = TRUE
    /\ OthersIdle

\* Two connected clients and a stream of two, three or four open shards
\* without records; nobody is shut down and every consumer starts.
InitBalance ==
    /\ InitConnected
    /\ shards \in {{1, 2}, {1, 2, 3}, {1, 2, 3, 4}}
    /\ finished = {}
    /\ streamLen = NoRecords
    /\ faults = 0
    /\ closers = {}
    /\ startFromOldest = TRUE
    /\ OthersIdle

\* Four open shards whose checkpoints were seeded at the last record.
InitE5 ==
    /\ now = 0
    /\ row = [s \in AllShards |-> [FreeRow EXCEPT !.seq = MaxSeq]]
    /\ ctxDone = [c \in Clients |-> FALSE]
    /\ closeRet = [c \in Clients |-> "none"]
    /\ closes = [c \in Clients |-> 0]
    /\ cstate = [c \in Clients |-> [s \in AllShards |-> "None"]]
    /\ startSeq = [c \in Clients |-> [s \in AllShards |-> 0]]
    /\ iter = [c \in Clients |-> [s \in AllShards |-> 0]]
    /\ pendHi = [c \in Clients |-> [s \in AllShards |-> 0]]
    /\ sentHi = [c \in Clients |-> [s \in AllShards |-> 0]]
    /\ flight = [c \in Clients |-> [s \in AllShards |-> {}]]
    /\ held = [c \in Clients |-> [s \in AllShards |-> 0]]
    /\ ackedNil = [s \in AllShards |-> 1..MaxSeq]
    /\ msgChan = [c \in Clients |-> "open"]
    /\ alloc = [c \in Clients |-> AllocAt("pass")]
    /\ shards = AllShards
    /\ finished = {}
    /\ streamLen = [s \in AllShards |-> MaxSeq]
    /\ faults = 0
    /\ closers = {}
    /\ startFromOldest = TRUE
    /\ OthersIdle

\* The same stream with consumers that can fail to start and no shutdown.
InitFaults ==
    /\ InitConnected
    /\ shards = {1, 2}
    /\ finished = {}
    /\ streamLen = Records
    /\ faults = MaxFaults
    /\ closers = {}
    /\ startFromOldest = TRUE
    /\ OthersIdle

\* ------------------------------------------------- Connect and Close

\* Connect, all streams exist: the allocation goroutine is started.
Connect(c) ==
    /\ msgChan[c] = "nil"
    /\ msgChan' = [msgChan EXCEPT ![c] = "open"]
    /\ alloc' = [alloc EXCEPT ![c] = AllocAt("pass")]
    /\ UNCHANGED <<tableVars, streamVars, faults, ctxDone, closeRet, closes, consVars,
                   ackedNil>>
    /\ UNCHANGED otherVars

\* Connect with pinned shards: runExplicitShards is started for them.
ConnectExplicit(c) ==
    /\ msgChan[c] = "nil"
    /\ msgChan' = [msgChan EXCEPT ![c] = "open"]
    /\ alloc' = [alloc EXCEPT ![c] =
                   [AllocAt("explicit") EXCEPT
                       !.unclaimed = {<<s, NoClient>> : s \in shards}]]
    /\ UNCHANGED <<tableVars, streamVars, faults, ctxDone, closeRet, closes,
                   consVars, ackedNil>>
    /\ UNCHANGED otherVars

\* Connect, waitUntilStreamsExists fails: msgChan is already set, no
\* goroutine is started.
ConnectFail(c) ==
    /\ msgChan[c] = "nil"
    /\ msgChan' = [msgChan EXCEPT ![c] = "open"]
    /\ UNCHANGED <<tableVars, streamVars, faults, ctxDone, closeRet, closes, alloc,
                   consVars, ackedNil>>
    /\ UNCHANGED otherVars

\* ReadBatch: ErrNotConnected without a channel or on a closed one; on an
\* open one it waits for a message or the end of its context.
ReadBatchResult(c) ==
    IF msgChan[c] = "nil" THEN "notconnected"
    ELSE IF msgChan[c] = "closed" THEN "notconnected"
    ELSE "waits"

\* Close: k.done(), then wait for closedChan or the caller's deadline.
Close(c) ==
    /\ c \in closers
    /\ closeRet[c] = "none"
    /\ ctxDone' = [ctxDone EXCEPT ![c] = TRUE]
    /\ closeRet' = [closeRet EXCEPT ![c] = "waiting"]
    /\ UNCHANGED <<tableVars, streamVars, faults, msgChan, closes, alloc, consVars,
                   ackedNil>>
    /\ UNCHANGED otherVars

CloseReturn(c) ==
    /\ closeRet[c] = "waiting"
    /\ closes[c] > 0
    /\ closeRet' = [closeRet EXCEPT ![c] = "nil"]
    /\ UNCHANGED <<tableVars, streamVars, faults, msgChan, ctxDone, closes, alloc,
                   consVars, ackedNil>>
    /\ UNCHANGED otherVars

CloseDeadline(c) ==
    /\ closeRet[c] = "waiting"
    /\ closeRet' = [closeRet EXCEPT ![c] = "ctxerr"]
    /\ UNCHANGED <<tableVars, streamVars, faults, msgChan, ctxDone, closes, alloc,
                   consVars, ackedNil>>
    /\ UNCHANGED otherVars

\* ------------------------------------------------- runBalancedShards

\* time.Since(claim.LeaseTimeout) > k.leasePeriod*2
LeaseLooksExpired(lease) == now - lease > LeasePeriod * 2

\* The unclaimedShards map: shard -> the client to claim it from.
UnclaimedShards ==
    {<<s, NoClient>> : s \in {x \in shards \ finished : row[x].client = NoClient}}
    \cup {<<s, row[s].client>> :
             s \in {x \in shards : /\ row[x].client # NoClient
                                   /\ LeaseLooksExpired(row[x].lease)}}

StealOneMore(nClaims, selfClaims) == nClaims > selfClaims

StealIgnoringSelf(nClaims, selfClaims) == nClaims > 1

StealFarAhead(nClaims, selfClaims) == nClaims > selfClaims + Cardinality(AllShards)

\* len(claims) > (selfClaims + 1)
StealCondition(nClaims, selfClaims) == nClaims > selfClaims + 1

\* Whether newAWSKinesisRecordBatcher and getIter succeed.
StartOutcomes == IF faults > 0 THEN BOOLEAN ELSE {TRUE}

\* wg.Add(1); runConsumer(...) with the sequence Claim returned.  With ok
\* the batcher and the iterator are obtained and the goroutine consumes;
\* without, the consumer is left holding initErr (the deferred checkpoint of
\* the starting sequence is the step StartFail).
StartConsumer(c, s, sequence, ok) ==
    /\ faults' = IF ok \/ cstate[c][s] # "None" THEN faults ELSE faults - 1
    /\ held' = [held EXCEPT ![c][s] = now + LeasePeriod]
    /\ IF cstate[c][s] = "None"
       THEN /\ cstate' = [cstate EXCEPT
                            ![c][s] = IF ok THEN "Consuming" ELSE "Init"]
            /\ startSeq' = [startSeq EXCEPT
                              ![c][s] = IF ok THEN 0 ELSE sequence]
            /\ iter' = [iter EXCEPT ![c][s] = sequence]
            /\ pendHi' = [pendHi EXCEPT ![c][s] = sequence]
            /\ sentHi' = [sentHi EXCEPT ![c][s] = sequence]
            /\ UNCHANGED flight
       ELSE UNCHANGED <<cstate, recordVars>>

\* One pass of the loop body up to the first Claim: ListShards, AllClaims,
\* the unclaimed map, and the choice between claiming and stealing.
Pass(c) ==
    /\ alloc[c].pc = "pass"
    /\ ~ctxDone[c]
    /\ NoInit(c)
    /\ IF UnclaimedShards # {}
       THEN alloc' = [alloc EXCEPT ![c] =
                        [AllocAt("claiming") EXCEPT !.unclaimed = UnclaimedShards,
                                                    !.ended = finished]]
       ELSE LET others == {d \in Clients \ {c} : AllClaims[d] # {}} IN
            /\ others # {}
            /\ alloc' = [alloc EXCEPT ![c] =
                           [AllocAt("stealing") EXCEPT !.claims = AllClaims,
                                                       !.left = others]]
    /\ UNCHANGED <<tableVars, streamVars, faults, readerVars, consVars, ackedNil>>
    /\ UNCHANGED otherVars

\* One iteration of "for shardID, clientID := range unclaimedShards".
ClaimUnclaimed(c) ==
    /\ alloc[c].pc = "claiming"
    /\ ~ctxDone[c]
    /\ NoInit(c)
    /\ \E p \in alloc[c].unclaimed :
          LET s == p[1]
              from == p[2]
              rest == alloc[c].unclaimed \ {p} IN
          /\ alloc' = [alloc EXCEPT ![c] =
                         IF rest = {} THEN EndPass(@)
                         ELSE [@ EXCEPT !.unclaimed = rest]]
          /\ \/ /\ ClaimOK(s, from)
                /\ row' = [row EXCEPT ![s] = ClaimedRow(c, s)]
                /\ \E ok \in StartOutcomes : StartConsumer(c, s, row[s].seq, ok)
             \/ /\ ~ClaimOK(s, from)
                /\ UNCHANGED <<row, consVars, faults>>
    /\ UNCHANGED <<now, streamVars, readerVars, ackedNil>>
    /\ UNCHANGED otherVars

\* One iteration of "for clientID, claims := range clientClaims".
StealAttempt(c) ==
    /\ alloc[c].pc = "stealing"
    /\ ~ctxDone[c]
    /\ NoInit(c)
    /\ \E d \in alloc[c].left :
          LET claims == alloc[c].claims[d]
              selfClaims == Cardinality(alloc[c].claims[c])
              rest == alloc[c].left \ {d}
              skipped == [alloc[c] EXCEPT !.left = rest]
              tried == [skipped EXCEPT !.log = <<selfClaims, Cardinality(claims)>>] IN
          IF StealCondition(Cardinality(claims), selfClaims)
          THEN \E s \in claims :
                  \/ /\ ClaimOK(s, d)
                     /\ row' = [row EXCEPT ![s] = ClaimedRow(c, s)]
                     /\ \E ok \in StartOutcomes :
                           /\ StartConsumer(c, s, row[s].seq, ok)
                           /\ alloc' = [alloc EXCEPT ![c] =
                                          IF cstate[c][s] = "None" /\ ~ok
                                          THEN tried ELSE EndPass(tried)]
                  \/ /\ ~ClaimOK(s, d)
                     /\ alloc' = [alloc EXCEPT ![c] =
                                    IF rest = {} THEN EndPass(tried) ELSE tried]
                     /\ UNCHANGED <<row, consVars, faults>>
          ELSE /\ alloc' = [alloc EXCEPT ![c] =
                              IF rest = {} THEN EndPass(skipped) ELSE skipped]
               /\ UNCHANGED <<row, consVars, faults>>
    /\ UNCHANGED <<now, streamVars, readerVars, ackedNil>>
    /\ UNCHANGED otherVars

\* runExplicitShards: Claim(shard, "") and runConsumer for one pinned shard.
\* A shard that could not be claimed stays on the list for the next round;
\* with the list empty the loop ends.
ExplicitClaim(c) ==
    /\ alloc[c].pc = "explicit"
    /\ ~ctxDone[c]
    /\ NoInit(c)
    /\ \E p \in alloc[c].unclaimed :
          LET s == p[1]
              rest == alloc[c].unclaimed \ {p} IN
          \/ /\ ClaimOK(s, NoClient)
             /\ row' = [row EXCEPT ![s] = ClaimedRow(c, s)]
             /\ \E ok \in StartOutcomes :
                   /\ StartConsumer(c, s, row[s].seq, ok)
                   /\ alloc' = [alloc EXCEPT ![c] =
                                  IF ~ok THEN @
                                  ELSE IF rest = {} THEN AllocAt("waiting")
                                  ELSE [@ EXCEPT !.unclaimed = rest]]
          \/ /\ ~ClaimOK(s, NoClient)
             /\ UNCHANGED <<row, consVars, faults, alloc>>
    /\ UNCHANGED <<now, streamVars, readerVars, ackedNil>>
    /\ UNCHANGED otherVars

\* The loop returns once a call fails under the cancelled context.
AllocExit(c) ==
    /\ alloc[c].pc \in {"pass", "claiming", "stealing", "explicit"}
    /\ ctxDone[c]
    /\ NoInit(c)
    /\ alloc' = [alloc EXCEPT ![c] = AllocAt("waiting")]
    /\ UNCHANGED <<tableVars, streamVars, faults, readerVars, consVars, ackedNil>>
    /\ UNCHANGED otherVars

NoWait(c) == TRUE

\* wg.Wait() returns: every consumer goroutine has called wg.Done().
WaitGroupDone(c) == \A s \in AllShards : cstate[c][s] = "None"

\* The deferred wg.Wait() and closeOnce.Do.
CloseChan(c) ==
    /\ alloc[c].pc = "waiting"
    /\ WaitGroupDone(c)
    /\ alloc' = [alloc EXCEPT ![c] = AllocAt("done")]
    /\ msgChan' = [msgChan EXCEPT ![c] = "closed"]
    /\ closes' = [closes EXCEPT ![c] = @ + 1]
    /\ UNCHANGED <<tableVars, streamVars, faults, ctxDone, closeRet, consVars, ackedNil>>
    /\ UNCHANGED otherVars

\* ------------------------------------------------------- runConsumer

SentSequence(c, s) == sentHi[c][s]

\* The sequence the consumer hands to Checkpoint and Yield.
CommitSequence(c, s) == GetSequence(c, s)

\* What a nack from the output leaves in flight: the input is wrapped in
\* AutoRetryNacksBatched, which delivers the batch again and calls the
\* reader's ack function only with a nil error.
NackFlight(c, s, q) == flight[c][s]

\* runConsumer returned initErr to the steal loop, which carries on with
\* the next client.
AfterInit(c) ==
    IF alloc[c].pc = "stealing" /\ alloc[c].left = {}
    THEN EndPass(alloc[c])
    ELSE alloc[c]

\* initErr != nil: wg.Done() and Checkpoint(startingSequence, final = true).
StartFail(c, s) ==
    /\ cstate[c][s] = "Init"
    /\ row' = IF StillOwned(c, s)
              THEN [row EXCEPT ![s] = CheckpointRow(c, s, startSeq[c][s], TRUE)]
              ELSE row
    /\ ResetConsumer(c, s)
    /\ alloc' = [alloc EXCEPT ![c] = AfterInit(c)]
    /\ UNCHANGED <<now, streamVars, faults, readerVars, ackedNil>>
    /\ UNCHANGED otherVars

GetIterEmpty(s, sequence) == IterEnd

\* getIter: an iterator after the given sequence; without a sequence one at
\* the oldest record (TRIM_HORIZON) or behind the newest (LATEST).
GetIter(s, sequence) ==
    IF sequence > 0 THEN sequence
    ELSE IF startFromOldest THEN 0 ELSE streamLen[s]

\* getRecords: the records after the iterator (the limit of 10e3 records
\* exceeds the length of the stream); the next iterator is empty once a
\* closed shard has been read to its end.  The records returned are the
\* ones to hand over next, wherever the iterator stood.
Pull(c, s) ==
    /\ cstate[c][s] = "Consuming"
    /\ ~ctxDone[c]
    /\ pendHi[c][s] = sentHi[c][s]
    /\ LET atEnd == s \in finished IN
       /\ iter[c][s] < streamLen[s] \/ atEnd
       /\ pendHi' = [pendHi EXCEPT ![c][s] = streamLen[s]]
       /\ sentHi' = [sentHi EXCEPT ![c][s] = iter[c][s]]
       /\ iter' = [iter EXCEPT ![c][s] = IF atEnd THEN IterEnd ELSE streamLen[s]]
       /\ cstate' = [cstate EXCEPT ![c][s] = IF atEnd THEN "Finished" ELSE @]
    /\ UNCHANGED <<tableVars, streamVars, faults, readerVars, alloc, startSeq,
                   flight, held, ackedNil>>
    /\ UNCHANGED otherVars

\* getRecords fails with ExpiredIteratorException and getIter succeeds: the
\* iterator is replaced by getIter(GetSequence()); an empty iterator would
\* make the consumer Finished.
RefreshIter(c, s) ==
    /\ cstate[c][s] = "Consuming"
    /\ ~ctxDone[c]
    /\ pendHi[c][s] = sentHi[c][s]
    /\ LET newIter == GetIter(s, GetSequence(c, s)) IN
       /\ iter' = [iter EXCEPT ![c][s] = newIter]
       /\ cstate' = [cstate EXCEPT ![c][s] = IF newIter = IterEnd THEN "Finished" ELSE @]
    /\ UNCHANGED <<tableVars, streamVars, faults, readerVars, alloc,
                   startSeq, pendHi, sentHi, flight, held, ackedNil>>
    /\ UNCHANGED otherVars

\* getRecords fails and so does getIter (or the error is another one): the
\* iterator is kept and the pull waits for the backoff.
RefreshFail(c, s) ==
    /\ cstate[c][s] = "Consuming"
    /\ ~ctxDone[c]
    /\ pendHi[c][s] = sentHi[c][s]
    /\ UNCHANGED vars

DispatchAfterYield(c, s) == cstate[c][s] \in Running \cup {"Yielding"}

\* The loop prepares and sends messages until it returns.
CanDispatch(c, s) == cstate[c][s] \in Running

\* AddRecord, FlushMessage and the send on msgChan that ReadBatch receives.
Dispatch(c, s) ==
    /\ CanDispatch(c, s)
    /\ msgChan[c] = "open"
    /\ sentHi[c][s] < pendHi[c][s]
    /\ sentHi' = [sentHi EXCEPT ![c][s] = @ + 1]
    /\ flight' = [flight EXCEPT ![c][s] = @ \cup {sentHi[c][s] + 1}]
    /\ UNCHANGED <<tableVars, streamVars, faults, readerVars, alloc, cstate, startSeq,
                   iter, pendHi, held, ackedNil>>
    /\ UNCHANGED otherVars

\* The output acknowledges a batch with a nil error.
Ack(c, s) ==
    /\ \E q \in flight[c][s] :
          /\ flight' = [flight EXCEPT ![c][s] = @ \ {q}]
          /\ ackedNil' = [ackedNil EXCEPT ![s] = @ \cup {q}]
    /\ UNCHANGED <<tableVars, streamVars, faults, readerVars, alloc, cstate, startSeq,
                   iter, pendHi, sentHi, held>>
    /\ UNCHANGED otherVars

\* The output rejects a batch.
Nack(c, s) ==
    /\ \E q \in flight[c][s] :
          flight' = [flight EXCEPT ![c][s] = NackFlight(c, s, q)]
    /\ UNCHANGED <<tableVars, streamVars, faults, readerVars, alloc, cstate, startSeq,
                   iter, pendHi, sentHi, held, ackedNil>>
    /\ UNCHANGED otherVars

\* case <-commitCtx.Done() with the reader's context alive: the periodic
\* commit.  A commit that returns an error changes nothing.
Commit(c, s) ==
    /\ cstate[c][s] \in Running
    /\ ~Drained(c, s)
    /\ ~ctxDone[c]
    /\ IF StillOwned(c, s)
       THEN /\ row' = [row EXCEPT
                         ![s] = CheckpointRow(c, s, CommitSequence(c, s), FALSE)]
            /\ held' = [held EXCEPT ![c][s] = now + LeasePeriod]
            /\ UNCHANGED cstate
       ELSE /\ cstate' = [cstate EXCEPT ![c][s] = "Yielding"]
            /\ UNCHANGED <<row, held>>
    /\ UNCHANGED <<now, streamVars, faults, readerVars, alloc, recordVars, ackedNil>>
    /\ UNCHANGED otherVars

\* Deferred exit in Yielding: Yield(k.ctx, GetSequence()).
YieldExit(c, s) ==
    /\ cstate[c][s] = "Yielding"
    /\ row' = IF ctxDone[c]
              THEN row
              ELSE [row EXCEPT ![s] = YieldRow(s, CommitSequence(c, s))]
    /\ ResetConsumer(c, s)
    /\ UNCHANGED <<now, streamVars, faults, readerVars, alloc, ackedNil>>
    /\ UNCHANGED otherVars

\* case <-k.ctx.Done(), or commitCtx done with k.ctx.Err() != nil: the state
\* becomes Closing and the deferred exit runs
\* Checkpoint(context.Background(), GetSequence(), true).
CloseExit(c, s) ==
    /\ cstate[c][s] \in Running
    /\ ~Drained(c, s)
    /\ ctxDone[c]
    /\ row' = IF StillOwned(c, s)
              THEN [row EXCEPT ![s] = CheckpointRow(c, s, CommitSequence(c, s), TRUE)]
              ELSE row
    /\ ResetConsumer(c, s)
    /\ UNCHANGED <<now, streamVars, faults, readerVars, alloc, ackedNil>>
    /\ UNCHANGED otherVars

\* Delete(k.ctx, ...): the row is removed unless the context is cancelled.
DeletedRow(c, s) == IF ctxDone[c] THEN row[s] ELSE FreeRow

\* Finished with nothing left to flush: return, then the deferred Delete.
FinishExit(c, s) ==
    /\ Drained(c, s)
    /\ row' = [row EXCEPT ![s] = DeletedRow(c, s)]
    /\ ResetConsumer(c, s)
    /\ UNCHANGED <<now, streamVars, faults, readerVars, alloc, ackedNil>>
    /\ UNCHANGED otherVars

\* ------------------------------------------------------- environment

\* A shard that carries records is closed (resharding): its sequence range
\* gets an end.
CloseShard(s) ==
    /\ s \in shards \ finished
    /\ streamLen[s] > 0
    /\ finished' = finished \cup {s}
    /\ UNCHANGED <<tableVars, shards, streamLen, startFromOldest, faults, closers, readerVars,
                   alloc, consVars, ackedNil>>
    /\ UNCHANGED otherVars

\* --------------------------------------------------------------- spec

\* The steps of the allocation goroutines.
AllocNext ==
    \/ \E c \in Clients : Pass(c)
    \/ \E c \in Clients : ClaimUnclaimed(c)
    \/ \E c \in Clients : StealAttempt(c)

\* The steps of the consumer goroutines and of the output behind them.
ConsumeNext ==
    \/ \E c \in Clients, s \in AllShards : Pull(c, s)
    \/ \E c \in Clients, s \in AllShards : Dispatch(c, s)
    \/ \E c \in Clients, s \in AllShards : Ack(c, s)
    \/ \E c \in Clients, s \in AllShards : Nack(c, s)
    \/ \E c \in Clients, s \in AllShards : Commit(c, s)
    \/ \E c \in Clients, s \in AllShards : YieldExit(c, s)

\* Shutdown and the end of a shard.
StopNext ==
    \/ \E c \in Clients : Close(c)
    \/ \E c \in Clients : AllocExit(c)
    \/ \E c \in Clients : CloseChan(c)
    \/ \E c \in Clients, s \in AllShards : CloseExit(c, s)
    \/ \E c \in Clients, s \in AllShards : FinishExit(c, s)
    \/ \E s \in AllShards : CloseShard(s)

Next == AllocNext \/ ConsumeNext \/ StopNext

Spec == Init /\ [][Next]_vars

NextFaults ==
    \/ AllocNext
    \/ ConsumeNext
    \/ \E c \in Clients, s \in AllShards : StartFail(c, s)

SpecFaults == InitFaults /\ [][NextFaults]_vars

\* The whole life of a reader, from Connect to the return of Close.
NextClose ==
    \/ \E c \in Clients : Connect(c)
    \/ \E c \in Clients : ConnectExplicit(c)
    \/ \E c \in Clients : ConnectFail(c)
    \/ \E c \in Clients : ExplicitClaim(c)
    \/ \E c \in Clients : CloseReturn(c)
    \/ \E c \in Clients : CloseDeadline(c)
    \/ \E c \in Clients : Close(c)
    \/ \E c \in Clients : AllocExit(c)
    \/ \E c \in Clients : CloseChan(c)
    \/ \E c \in Clients, s \in AllShards : CloseExit(c, s)
    \/ AllocNext
    \/ ConsumeNext

\* A goroutine that can return does return: the runtime schedules it, and a
\* select with the cancelled context ready takes that case in the end.
FairClose ==
    /\ \A c \in Clients : WF_vars(AllocExit(c))
    /\ \A c \in Clients : WF_vars(CloseChan(c))
    /\ \A c \in Clients : WF_vars(CloseReturn(c))
    /\ \A c \in Clients, s \in AllShards : WF_vars(CloseExit(c, s))
    /\ \A c \in Clients, s \in AllShards : WF_vars(YieldExit(c, s))

SpecClose == InitClose /\ [][NextClose]_vars /\ FairClose

\* Rebalancing alone: no records to carry.
NextBalance ==
    \/ AllocNext
    \/ \E c \in Clients, s \in AllShards : Commit(c, s)
    \/ \E c \in Clients, s \in AllShards : YieldExit(c, s)

SpecBalance == InitBalance /\ [][NextBalance]_vars

\* Every goroutine that can take a step eventually takes one: the rebalance
\* and commit timers keep firing.
FairBalance ==
    /\ \A c \in Clients : WF_vars(Pass(c))
    /\ \A c \in Clients : WF_vars(ClaimUnclaimed(c))
    /\ \A c \in Clients : WF_vars(StealAttempt(c))
    /\ \A c \in Clients, s \in AllShards : WF_vars(Commit(c, s))
    /\ \A c \in Clients, s \in AllShards : WF_vars(YieldExit(c, s))

SpecE5 == InitE5 /\ [][NextBalance]_vars /\ FairBalance

\* A producer appends a record to an open shard.
PutRecord(s) ==
    /\ s \in shards \ finished
    /\ streamLen[s] < MaxSeq
    /\ streamLen' = [streamLen EXCEPT ![s] = @ + 1]
    /\ UNCHANGED <<tableVars, shards, finished, closers, startFromOldest, faults,
                   readerVars, alloc, consVars, ackedNil>>
    /\ UNCHANGED otherVars

\* The first client consumes two new, still empty shards it has claimed;
\* start_from_oldest is either way.
InitIter ==
    /\ now = 0
    /\ row = [s \in AllShards |->
                IF s \in {1, 2}
                THEN [client |-> "c1", seq |-> 0, lease |-> LeasePeriod]
                ELSE FreeRow]
    /\ ctxDone = [c \in Clients |-> FALSE]
    /\ closeRet = [c \in Clients |-> "none"]
    /\ closes = [c \in Clients |-> 0]
    /\ cstate = [c \in Clients |-> [s \in AllShards |->
                   IF c = "c1" /\ s \in {1, 2} THEN "Consuming" ELSE "None"]]
    /\ startSeq = [c \in Clients |-> [s \in AllShards |-> 0]]
    /\ iter = [c \in Clients |-> [s \in AllShards |-> 0]]
    /\ pendHi = [c \in Clients |-> [s \in AllShards |-> 0]]
    /\ sentHi = [c \in Clients |-> [s \in AllShards |-> 0]]
    /\ flight = [c \in Clients |-> [s \in AllShards |-> {}]]
    /\ held = [c \in Clients |-> [s \in AllShards |->
                 IF c = "c1" /\ s \in {1, 2} THEN LeasePeriod ELSE 0]]
    /\ ackedNil = [s \in AllShards |-> {}]
    /\ msgChan = [c \in Clients |-> "open"]
    /\ alloc = [c \in Clients |-> AllocAt("pass")]
    /\ shards = {1, 2}
    /\ finished = {}
    /\ streamLen = NoRecords
    /\ faults = 0
    /\ closers = {}
    /\ startFromOldest \in BOOLEAN
    /\ OthersIdle

\* Consuming while records arrive and iterators expire.
NextIter ==
    \/ \E s \in AllShards : PutRecord(s)
    \/ \E c \in Clients, s \in AllShards : Pull(c, s)
    \/ \E c \in Clients, s \in AllShards : RefreshIter(c, s)
    \/ \E c \in Clients, s \in AllShards : RefreshFail(c, s)
    \/ \E c \in Clients, s \in AllShards : Dispatch(c, s)
    \/ \E c \in Clients, s \in AllShards : Ack(c, s)
    \/ \E c \in Clients, s \in AllShards : Nack(c, s)
    \/ \E c \in Clients, s \in AllShards : Commit(c, s)

SpecIter == InitIter /\ [][NextIter]_vars

\* ------------------------------------------------------ drop_on output

\* The aws_kinesis input is constructed and never connected.
KinesisIdle ==
    /\ InitCommon
    /\ msgChan = [c \in Clients |-> "nil"]
    /\ alloc = [c \in Clients |-> AllocAt("idle")]
    /\ shards = {}
    /\ finished = {}
    /\ streamLen = NoRecords
    /\ faults = 0
    /\ closers = {}
    /\ startFromOldest = TRUE

\* What the child or the back-pressure timer reports for a transaction:
\* "nil", the child's error "err", or the back-pressure error "bp".
HandleResNeverDrops(res, onError) == res

HandleResAlwaysDrops(res, onError) == "nil"

HandleResDropsBackPressure(res, onError) ==
    IF res = "bp" \/ (res # "nil" /\ onError) THEN "nil" ELSE res

\* The response sent upstream: with error set a failure is dropped (nil),
\* without it the failure is passed on as it is.
HandleRes(res, onError) == IF res # "nil" /\ onError THEN "nil" ELSE res

\* The transaction is answered upstream and the output waits for the next.
DropRespond(res) ==
    drop' = [drop EXCEPT !.phase = "idle",
                         !.resp[drop.txn] = Append(@, HandleRes(res, drop.error))]

\* A drop_on output with any setting of error and back_pressure.
InitDrop ==
    /\ KinesisIdle
    /\ dedupe = DedupeIdle
    /\ dyn = DynIdle
    /\ sqs = SqsIdle
    /\ nats = NatsIdle
    /\ gcs = GcsIdle
    /\ svc = SvcIdle
    /\ keyReader = KeyReaderIdle
    /\ pull = PullIdle
    /\ \E e \in BOOLEAN, b \in BOOLEAN :
          drop = [DropIdle EXCEPT !.error = e, !.backPressure = b]

\* Upstream sends the next transaction on the channel given to Consume.
DropConsume ==
    /\ drop.phase = "idle"
    /\ drop.txn < MaxTrans
    /\ drop' = [drop EXCEPT !.phase = "offered", !.txn = @ + 1]
    /\ UNCHANGED notDrop

\* The child output accepts the transaction.
DropForward ==
    /\ drop.phase = "offered"
    /\ drop' = [drop EXCEPT !.phase = "child", !.took = @ \cup {drop.txn}]
    /\ UNCHANGED notDrop

\* back_pressure is set and the child has not accepted the transaction
\* within that duration.
DropTimeout ==
    /\ drop.phase = "offered"
    /\ drop.backPressure
    /\ DropRespond("bp")
    /\ UNCHANGED notDrop

\* The child responds to the transaction it accepted.
DropChildRespond ==
    /\ drop.phase = "child"
    /\ \E res \in {"nil", "err"} :
          drop' = [drop EXCEPT !.phase = "answered", !.childRes[drop.txn] = res]
    /\ UNCHANGED notDrop

\* The child's response is handled and sent upstream.
DropChildDone ==
    /\ drop.phase = "answered"
    /\ DropRespond(drop.childRes[drop.txn])
    /\ UNCHANGED notDrop

NextDrop ==
    \/ DropConsume
    \/ DropForward
    \/ DropTimeout
    \/ DropChildRespond
    \/ DropChildDone

SpecDrop == InitDrop /\ [][NextDrop]_vars

\* --------------------------------------------------- dedupe processor

\* The keys the key interpolation yields.
Keys == {"a", "b"}

\* The batches handed to ProcessBatch, as the keys of their messages.
Batches == UNION {[1..n -> Keys] : n \in 1..MaxBatch}

NeverDuplicate(cache, key) == FALSE

\* The key is in the cache already: the message is a duplicate.
IsDuplicate(cache, key) == key \in cache

KeepAlways(dropOnErr) == TRUE

\* Whether a message whose cache access failed is forwarded.
KeepOnCacheErr(dropOnErr) == ~dropOnErr

\* The messages of a batch one after the other, from message i on: a failed
\* cache access keeps or drops the message as drop_on_err says; otherwise
\* a key found in the cache drops the message and a new key is added to the
\* cache and the message kept.  kept lists the positions that stay.
RECURSIVE DedupeFrom(_, _, _, _, _, _)
DedupeFrom(keys, fails, dropOnErr, i, cache, kept) ==
    IF i > Len(keys) THEN [cache |-> cache, kept |-> kept]
    ELSE IF fails[i]
    THEN DedupeFrom(keys, fails, dropOnErr, i + 1, cache,
                    IF KeepOnCacheErr(dropOnErr) THEN Append(kept, i) ELSE kept)
    ELSE IF IsDuplicate(cache, keys[i])
    THEN DedupeFrom(keys, fails, dropOnErr, i + 1, cache, kept)
    ELSE DedupeFrom(keys, fails, dropOnErr, i + 1, cache \cup {keys[i]},
                    Append(kept, i))

\* A dedupe processor with either setting of drop_on_err.
InitDedupe ==
    /\ KinesisIdle
    /\ drop = DropIdle
    /\ dyn = DynIdle
    /\ sqs = SqsIdle
    /\ nats = NatsIdle
    /\ gcs = GcsIdle
    /\ svc = SvcIdle
    /\ keyReader = KeyReaderIdle
    /\ pull = PullIdle
    /\ \E d \in BOOLEAN : dedupe = [DedupeIdle EXCEPT !.dropOnErr = d]

\* ProcessBatch: the batch that stays is returned, none if nothing stays;
\* the error returned is nil.  fails[i]: the cache access for message i fails.
\* Messages are logged by their position in the input.
ProcessBatch(keys, fails) ==
    /\ Len(dedupe.input) + Len(keys) <= MaxMsgs
    /\ LET base == Len(dedupe.input)
           r == DedupeFrom(keys, fails, dedupe.dropOnErr, 1, dedupe.cache, <<>>)
           batch == [j \in 1..Len(r.kept) |-> base + r.kept[j]]
           msgs == [i \in 1..Len(keys) |-> [key |-> keys[i], failed |-> fails[i]]] IN
       dedupe' = [dedupe EXCEPT
                    !.cache = r.cache,
                    !.input = @ \o msgs,
                    !.out = IF batch = <<>> THEN @ ELSE Append(@, batch),
                    !.calls = @ + 1]
    /\ UNCHANGED notDedupe

NextDedupe ==
    \E keys \in Batches : \E fails \in [1..Len(keys) -> BOOLEAN] :
        ProcessBatch(keys, fails)

SpecDedupe == InitDedupe /\ [][NextDedupe]_vars

\* ----------------------------------------------------- dynamic brokers

\* dyn.child[i] is the generation of the component running under i (0: none);
\* generation 1 are the statically configured children, every constructed
\* component gets the next generation.  dyn.configs is inputConfigs or
\* outputConfigs, dyn.started the configuration handed to dynAPI.Started.
\* dyn.inflight holds, per child, the transactions not responded to yet.

\* What the broker does not say is how long a child takes: a child that
\* is told to stop answers its transactions or runs into the deadline.

DrainedAtOnce(i) == TRUE

\* The child under i holds no transaction.
ChildDrained(i) == \A f \in dyn.inflight : f.id # i

FanOutAlwaysNil(errs) == "nil"

\* The response of the fan-out: nil only if no child responded with an error.
FanOutResult(errs) == IF errs = {} THEN "nil" ELSE "err"

KeepConfig(configs, i) == configs

\* delete(outputConfigs, id)
ForgetConfig(configs, i) == [configs EXCEPT ![i] = 0]

\* The first callback of the broker, called when a child is added: the
\* configuration waiting under the label goes to dynAPI.Started and is
\* deleted; without one nothing happens.
OnAdd(d, i) ==
    IF d.configs[i] = 0 THEN d
    ELSE [d EXCEPT !.started[i] = d.configs[i], !.configs = ForgetConfig(@, i)]

\* newDynamicInput or newDynamicOutput has returned: the configured children
\* run and their configurations are started.
InitDyn ==
    /\ KinesisIdle
    /\ drop = DropIdle
    /\ dedupe = DedupeIdle
    /\ sqs = SqsIdle
    /\ nats = NatsIdle
    /\ gcs = GcsIdle
    /\ svc = SvcIdle
    /\ keyReader = KeyReaderIdle
    /\ pull = PullIdle
    /\ \E k \in {"input", "output"} : \E static \in SUBSET Ids :
         dyn = [DynIdle EXCEPT
                  !.kind = k,
                  !.child = [i \in Ids |-> IF i \in static THEN 1 ELSE 0],
                  !.started = [i \in Ids |-> IF i \in static THEN 1 ELSE 0]]

\* The handlers that are running or may still start.
Calls == dyn.returns + (IF dyn.req.st = "idle" THEN 0 ELSE 1)

\* OnUpdate, failing: the body does not parse, the component cannot be
\* constructed or, for an output, cannot be wrapped.  The handler returns
\* the error.
UpdateFail(i, why) ==
    /\ Calls < MaxReturns
    /\ why = "wrap" => dyn.kind = "output"
    /\ dyn' = [dyn EXCEPT !.lastErr = why, !.lastId = i, !.returns = @ + 1]
    /\ UNCHANGED notDyn

\* OnUpdate up to the call of SetInput or SetOutput: the component is
\* constructed and its configuration recorded.
UpdateBegin(i) ==
    /\ dyn.req.st = "idle"
    /\ dyn.returns < MaxReturns
    /\ dyn' = [dyn EXCEPT
                 !.gen = @ + 1,
                 !.configs[i] = dyn.gen + 1,
                 !.req = [st |-> "pending", id |-> i, gen |-> dyn.gen + 1,
                          busy |-> FALSE]]
    /\ UNCHANGED notDyn

\* OnDelete up to the call of SetInput or SetOutput with nil.
DeleteBegin(i) ==
    /\ dyn.req.st = "idle"
    /\ dyn.returns < MaxReturns
    /\ dyn' = [dyn EXCEPT
                 !.req = [st |-> "pending", id |-> i, gen |-> 0, busy |-> FALSE]]
    /\ UNCHANGED notDyn

\* The broker takes the request: a child under the id is told to stop.
SetStart ==
    /\ dyn.req.st = "pending"
    /\ dyn' = [dyn EXCEPT !.req.st = "draining",
                          !.req.busy = ~ChildDrained(dyn.req.id)]
    /\ UNCHANGED notDyn

\* The old child has answered everything and is destroyed; the new one, if
\* any, is installed and the first callback called.
SetInstall ==
    /\ dyn.req.st = "draining"
    /\ ChildDrained(dyn.req.id)
    /\ dyn' = IF dyn.req.gen = 0
              THEN [dyn EXCEPT !.child[dyn.req.id] = 0, !.req.st = "ok"]
              ELSE OnAdd([dyn EXCEPT !.child[dyn.req.id] = dyn.req.gen,
                                     !.req.st = "ok"], dyn.req.id)
    /\ UNCHANGED notDyn

\* The old child is gone but the new one cannot be started.
SetAddFail ==
    /\ dyn.req.st = "draining"
    /\ ChildDrained(dyn.req.id)
    /\ dyn.req.gen # 0
    /\ dyn' = [dyn EXCEPT !.child[dyn.req.id] = 0, !.req.st = "failed"]
    /\ UNCHANGED notDyn

\* The deadline of the request passes while the old child still holds
\* transactions: the old child stays.
SetTimeout ==
    /\ dyn.req.st = "draining"
    /\ ~ChildDrained(dyn.req.id)
    /\ dyn' = [dyn EXCEPT !.req.st = "failed"]
    /\ UNCHANGED notDyn

\* The rest of OnUpdate and OnDelete: after a failed SetInput or SetOutput
\* the configuration recorded by OnUpdate is deleted; the error is returned.
UpdateEnd ==
    /\ dyn.req.st \in {"ok", "failed"}
    /\ dyn' = [dyn EXCEPT
                 !.configs = IF dyn.req.st = "failed" /\ dyn.req.gen # 0
                             THEN ForgetConfig(@, dyn.req.id) ELSE @,
                 !.lastErr = IF dyn.req.st = "ok" THEN "nil"
                             ELSE IF dyn.req.gen # 0 THEN "install" ELSE "close",
                 !.lastId = dyn.req.id,
                 !.returns = @ + 1,
                 !.req = [NoReq EXCEPT !.id = dyn.req.id, !.gen = dyn.req.gen,
                                       !.busy = dyn.req.busy]]
    /\ UNCHANGED notDyn

\* The children at work, those the broker has not told to stop.
Working == {i \in Ids : dyn.child[i] # 0
                        /\ ~(dyn.req.st = "draining" /\ dyn.req.id = i)}

\* Dynamic output: the broker takes the next transaction from upstream and
\* hands it to every child.  It takes none while it replaces a child.
DynConsume ==
    /\ dyn.kind = "output"
    /\ dyn.cur.t = 0 \/ dyn.cur.done
    /\ dyn.req.st # "draining"
    /\ dyn.nextT <= MaxTrans
    /\ Working # {}
    /\ dyn' = [dyn EXCEPT
                 !.cur = [t |-> dyn.nextT, targets |-> Working, nils |-> {},
                          errs |-> {}, done |-> FALSE],
                 !.inflight = @ \cup {[t |-> dyn.nextT, id |-> i,
                                       gen |-> dyn.child[i]] : i \in Working},
                 !.nextT = @ + 1]
    /\ UNCHANGED notDyn

\* Dynamic output: a child responds to the transaction it holds.
DynChildRespond(f, res) ==
    /\ dyn.kind = "output"
    /\ f \in dyn.inflight
    /\ dyn' = [dyn EXCEPT
                 !.inflight = @ \ {f},
                 !.cur.nils = IF res = "nil" THEN @ \cup {f.id} ELSE @,
                 !.cur.errs = IF res = "nil" THEN @ ELSE @ \cup {f.id}]
    /\ UNCHANGED notDyn

\* Dynamic output: every child has responded, the broker responds upstream.
DynRespond ==
    /\ dyn.kind = "output"
    /\ dyn.cur.t # 0 /\ ~dyn.cur.done
    /\ dyn.cur.nils \cup dyn.cur.errs = dyn.cur.targets
    /\ dyn' = [dyn EXCEPT !.resp[dyn.cur.t] = FanOutResult(dyn.cur.errs),
                          !.cur.done = TRUE]
    /\ UNCHANGED notDyn

\* Dynamic input: a child at work sends a transaction downstream.
DynChildEmit(i) ==
    /\ dyn.kind = "input"
    /\ i \in Working
    /\ dyn.nextT <= MaxTrans
    /\ dyn' = [dyn EXCEPT
                 !.inflight = @ \cup {[t |-> dyn.nextT, id |-> i,
                                       gen |-> dyn.child[i]]},
                 !.nextT = @ + 1]
    /\ UNCHANGED notDyn

\* Dynamic input: downstream responds and the child gets the response.
DynAck(f, res) ==
    /\ dyn.kind = "input"
    /\ f \in dyn.inflight
    /\ dyn' = [dyn EXCEPT !.inflight = @ \ {f}, !.resp[f.t] = res]
    /\ UNCHANGED notDyn

NextDyn ==
    \/ \E i \in Ids : \E why \in {"parse", "construct", "wrap"} : UpdateFail(i, why)
    \/ \E i \in Ids : UpdateBegin(i)
    \/ \E i \in Ids : DeleteBegin(i)
    \/ SetStart
    \/ SetInstall
    \/ SetAddFail
    \/ SetTimeout
    \/ UpdateEnd
    \/ DynConsume
    \/ \E f \in dyn.inflight : \E res \in {"nil", "err"} : DynChildRespond(f, res)
    \/ DynRespond
    \/ \E i \in Ids : DynChildEmit(i)
    \/ \E f \in dyn.inflight : \E res \in {"nil", "err"} : DynAck(f, res)

SpecDyn == InitDyn /\ [][NextDyn]_vars

\* ------------------------------------------------------ aws_sqs output

\* The messages of a batch are named by their Ids 0..n-1, as WriteBatch
\* names them; the backoff is either a duration or backoff.Stop, which
\* depends on a clock that is not modelled.

IdSeq(a, b) == [k \in 1..(b - a + 1) |-> a + k - 1]

Range(f) == {f[k] : k \in DOMAIN f}

\* entries[:k] and entries[k:]
Take(es, k) == SubSeq(es, 1, k)
Skip(es, k) == SubSeq(es, k + 1, Len(es))

\* The first request: the batch trimmed to the most a request may hold.
Trim(es) ==
    IF Len(es) > sqsMaxRecordsCount
    THEN [input |-> Take(es, sqsMaxRecordsCount), entries |-> Skip(es, sqsMaxRecordsCount)]
    ELSE [input |-> es, entries |-> <<>>]

ForgetRemaining(input, es) == [input |-> input, entries |-> <<>>]

ResendAll(input, failed) == input

\* The entries the response reports as failed, built anew from attrMap.
FailedEntries(input, failed) == SelectSeq(input, LAMBDA id : id \in failed)

\* "add remaining records to batch"
AddRemaining(input, es) ==
    IF Len(es) > 0 /\ Len(input) < sqsMaxRecordsCount
    THEN IF sqsMaxRecordsCount - Len(input) < Len(es)
         THEN [input |-> input \o Take(es, sqsMaxRecordsCount - Len(input)),
               entries |-> Skip(es, sqsMaxRecordsCount - Len(input))]
         ELSE [input |-> input \o es, entries |-> <<>>]
    ELSE [input |-> input, entries |-> es]

\* An aws_sqs output, connected or not.
InitSqs ==
    /\ KinesisIdle
    /\ drop = DropIdle
    /\ dedupe = DedupeIdle
    /\ dyn = DynIdle
    /\ nats = NatsIdle
    /\ gcs = GcsIdle
    /\ svc = SvcIdle
    /\ keyReader = KeyReaderIdle
    /\ pull = PullIdle
    /\ \E c \in BOOLEAN : sqs = [SqsIdle EXCEPT !.connected = c]

\* Connect
SqsConnect ==
    /\ sqs.pc = "idle"
    /\ ~sqs.connected
    /\ sqs' = [sqs EXCEPT !.connected = TRUE]
    /\ UNCHANGED notSqs

\* The loop is left or never entered: WriteBatch returns.
SqsReturn(s, e) == [s EXCEPT !.pc = "done", !.ret = e]

\* The end of an iteration: the remaining records are added and the loop
\* goes on while there is something to send, else WriteBatch returns err.
SqsIterate(s) ==
    LET r == AddRemaining(s.input, s.entries)
        t == [s EXCEPT !.input = r.input, !.entries = r.entries] IN
    IF Len(t.input) > 0 THEN [t EXCEPT !.pc = "send"] ELSE SqsReturn(t, t.err)

\* WriteBatch up to the loop: without a client ErrNotConnected; an
\* interpolation that fails returns its error; else the entries are built
\* and trimmed.
SqsWriteBatch(n, attrsOk) ==
    /\ sqs.pc = "idle"
    /\ sqs' = IF ~sqs.connected THEN SqsReturn(sqs, "notconnected")
              ELSE IF ~attrsOk THEN SqsReturn([sqs EXCEPT !.n = n], "attrs")
              ELSE LET r == Trim(IdSeq(0, n - 1))
                       s == [sqs EXCEPT !.n = n, !.input = r.input,
                                        !.entries = r.entries, !.err = "nil"] IN
                   IF Len(s.input) > 0 THEN [s EXCEPT !.pc = "send"]
                   ELSE SqsReturn(s, "nil")
    /\ UNCHANGED notSqs

\* One SendMessageBatch that fails as a whole: nothing is accepted.
SqsSendFails(stop) ==
    /\ sqs.pc = "send"
    /\ sqs.sends < MaxSends
    /\ LET s == [sqs EXCEPT !.sends = @ + 1, !.err = "sqs", !.stop = stop,
                            !.whole = TRUE] IN
       sqs' = IF stop THEN SqsReturn(s, "sqs") ELSE [s EXCEPT !.pc = "wait"]
    /\ UNCHANGED notSqs

\* One SendMessageBatch that is answered: the entries in failed are
\* reported as failed, those in sender with SenderFault; the others are
\* accepted by the queue.
SqsSendAnswered(stop, failed, sender) ==
    /\ sqs.pc = "send"
    /\ sqs.sends < MaxSends
    /\ sender \subseteq failed
    /\ LET s == [sqs EXCEPT !.sends = @ + 1, !.stop = stop,
                            !.accepted = @ \cup (Range(sqs.input) \ failed)] IN
       sqs' = IF failed = {}
              THEN SqsIterate([s EXCEPT !.input = <<>>, !.err = "nil"])
              ELSE IF sender # {} THEN SqsReturn(s, "sender")
              ELSE LET t == [s EXCEPT !.input = FailedEntries(sqs.input, failed),
                                      !.err = "partial", !.partial = TRUE] IN
                   IF stop THEN SqsReturn(t, "partial")
                   ELSE [t EXCEPT !.pc = "wait2"]
    /\ UNCHANGED notSqs

\* The select after a request that failed as a whole.  branch is the case
\* taken, one of those that are ready.
SqsWaitRetry(branch) ==
    /\ sqs.pc = "wait"
    /\ branch = "ctx" => sqs.ctxDone
    /\ branch = "close" => sqs.closed
    /\ sqs' = CASE branch = "timer" -> [sqs EXCEPT !.pc = "send"]
                [] branch = "ctx" -> SqsReturn(sqs, "timeout")
                [] branch = "close" -> SqsReturn(sqs, sqs.err)
    /\ UNCHANGED notSqs

\* The select after a request with failed entries.
SqsWaitPartial(branch) ==
    /\ sqs.pc = "wait2"
    /\ branch = "ctx" => sqs.ctxDone
    /\ branch = "close" => sqs.closed
    /\ sqs' = CASE branch = "timer" -> SqsIterate(sqs)
                [] branch = "ctx" -> SqsReturn(sqs, "timeout")
                [] branch = "close" -> SqsReturn(sqs, sqs.err)
    /\ UNCHANGED notSqs

\* The caller cancels the context of the WriteBatch call.
SqsCancel ==
    /\ sqs.pc \notin {"idle", "done"}
    /\ ~sqs.ctxDone
    /\ sqs' = [sqs EXCEPT !.ctxDone = TRUE]
    /\ UNCHANGED notSqs

\* Close
SqsClose ==
    /\ ~sqs.closed
    /\ sqs' = [sqs EXCEPT !.closed = TRUE]
    /\ UNCHANGED notSqs

SqsBranches == {"timer", "ctx", "close"}

NextSqs ==
    \/ SqsConnect
    \/ \E n \in 0..MaxSqsBatch : \E ok \in BOOLEAN : SqsWriteBatch(n, ok)
    \/ \E stop \in BOOLEAN : SqsSendFails(stop)
    \/ \E stop \in BOOLEAN : \E failed \in SUBSET Range(sqs.input) :
         \E sender \in SUBSET failed : SqsSendAnswered(stop, failed, sender)
    \/ \E b \in SqsBranches : SqsWaitRetry(b)
    \/ \E b \in SqsBranches : SqsWaitPartial(b)
    \/ SqsCancel
    \/ SqsClose

SpecSqs == InitSqs /\ [][NextSqs]_vars

\* --------------------------------------------- aws_sqs: getSQSAttributes

\* Metadata keys are numbered in the order of sort.Strings; keys with a
\* common prefix are neighbours.  Key 2 stands for a name that
\* sqsAttributeKeyInvalidCharRegexp matches; the exclude filter of the
\* configuration has no prefix or the prefix of the keys 4 and 5.
MetaKeys == 1..MaxKeys
InvalidKeys == {2}
ExcludeFilters == {{}, {4, 5}}

isValidSQSAttribute(k) == k \notin InvalidKeys

\* Metadata.WalkMut: the keys of the message that pass the filter and are
\* valid attribute names, in no order.
WalkedKeys(meta, exclude) == {k \in meta \ exclude : isValidSQSAttribute(k)}

\* sort.Strings
RECURSIVE SortKeys(_)
SortKeys(keys) ==
    IF keys = {} THEN <<>>
    ELSE LET least == CHOOSE k \in keys : \A o \in keys : k <= o IN
         <<least>> \o SortKeys(keys \ {least})

EveryKey(sorted) == Range(sorted)

\* The loop over the sorted keys, left after the key at index 9.
UpToLimit(sorted) ==
    {sorted[k] : k \in {j \in DOMAIN sorted : j <= sqsAttributeLimit}}

\* A message with any metadata keys, for either filter.
InitAttrs ==
    /\ KinesisIdle
    /\ drop = DropIdle
    /\ dedupe = DedupeIdle
    /\ dyn = DynIdle
    /\ nats = NatsIdle
    /\ gcs = GcsIdle
    /\ svc = SvcIdle
    /\ keyReader = KeyReaderIdle
    /\ pull = PullIdle
    /\ \E m \in SUBSET MetaKeys : \E x \in ExcludeFilters :
         sqs = [SqsIdle EXCEPT !.meta = m, !.exclude = x]

\* getSQSAttributes, the attribute map.
GetSQSAttributes ==
    /\ ~sqs.walked
    /\ sqs' = [sqs EXCEPT
                 !.walked = TRUE,
                 !.attrs = UpToLimit(SortKeys(WalkedKeys(sqs.meta, sqs.exclude)))]
    /\ UNCHANGED notSqs

NextAttrs == GetSQSAttributes

SpecAttrs == InitAttrs /\ [][NextAttrs]_vars

\* --------------------------------------------------------- NATS drivers

\* nats_kv output, nats_jetstream output and nats_kv input.  Connections are
\* numbered as they are opened, 0 is nil.  nats.natsConn is the field
\* natsConn, nats.handle the field an operation works with (keyValue, jCtx,
\* watcher), bound to the connection it was made from.  The sections under
\* connMut are single steps.

NatsKinds == {"kv_out", "js_out", "kv_in"}

InitNats ==
    /\ KinesisIdle
    /\ drop = DropIdle
    /\ dedupe = DedupeIdle
    /\ dyn = DynIdle
    /\ sqs = SqsIdle
    /\ gcs = GcsIdle
    /\ svc = SvcIdle
    /\ keyReader = KeyReaderIdle
    /\ pull = PullIdle
    /\ \E k \in NatsKinds : nats = [NatsIdle EXCEPT !.kind = k]

\* Connect, nats.Connect fails: nothing is opened, nothing set.
NatsConnectRefused ==
    /\ nats.natsConn = 0
    /\ nats.conns < MaxConns
    /\ nats' = [nats EXCEPT !.conns = @ + 1, !.connRet = "err"]
    /\ UNCHANGED notNats

\* Connect, a later step fails (JetStream, KeyValue, Watch): the deferred
\* function closes the connection.  The outputs keep it in a local
\* variable; the nats_kv input has assigned it to r.natsConn already.
NatsConnectFails ==
    /\ nats.natsConn = 0
    /\ nats.conns < MaxConns
    /\ nats' = [nats EXCEPT
                  !.conns = @ + 1,
                  !.connRet = "err",
                  !.natsConn = IF nats.kind = "kv_in" THEN nats.conns + 1 ELSE 0]
    /\ UNCHANGED notNats

\* Connect succeeds.
NatsConnect ==
    /\ nats.natsConn = 0
    /\ nats.conns < MaxConns
    /\ nats' = [nats EXCEPT !.conns = @ + 1, !.natsConn = nats.conns + 1,
                            !.handle = nats.conns + 1,
                            !.connRet = "nil",
                            !.open = @ \cup {nats.conns + 1}]
    /\ UNCHANGED notNats

\* Connect with natsConn set: it returns nil at once.
NatsConnectAgain ==
    /\ nats.natsConn # 0
    /\ nats' = [nats EXCEPT !.connRet = "nil"]
    /\ UNCHANGED notNats

\* disconnect: the connection is closed and the fields set to nil.
\* nats.connRet, what Connect has returned since the last disconnect, is
\* forgotten.
Disconnected(n) ==
    [n EXCEPT !.open = @ \ {n.natsConn, n.handle}, !.natsConn = 0, !.handle = 0,
              !.connRet = "none"]

\* Close: disconnect in a goroutine of its own.
NatsClose ==
    /\ ~nats.closed
    /\ nats' = [Disconnected(nats) EXCEPT !.closed = TRUE]
    /\ UNCHANGED notNats

\* Write or Read, the section under connMut: the handle is copied; without
\* one ErrNotConnected is returned.
NatsOpBegin ==
    /\ nats.op.pc = "idle"
    /\ nats.ops < MaxOps
    /\ nats' = [nats EXCEPT
                  !.ops = @ + 1,
                  !.op = IF nats.handle = 0
                         THEN [pc |-> "idle", h |-> 0, ret |-> "notconnected"]
                         ELSE [pc |-> "busy", h |-> nats.handle, ret |-> "none"]]
    /\ UNCHANGED notNats

\* Write, after connMut is released: Put or PublishMsg on the copied
\* handle; on a closed connection the client returns an error.
NatsPublish(res) ==
    /\ nats.kind \in {"kv_out", "js_out"}
    /\ nats.op.pc = "busy"
    /\ nats' = [nats EXCEPT
                  !.op = [pc |-> "idle", h |-> 0,
                          ret |-> IF nats.op.h \in nats.open THEN res ELSE "err"]]
    /\ UNCHANGED notNats

\* Read, after connMut is released: an update, a cancelled context, or the
\* closed channel of a stopped watcher, after which Read disconnects.
NatsReadWait(res) ==
    /\ nats.kind = "kv_in"
    /\ nats.op.pc = "busy"
    /\ nats' = IF nats.op.h \in nats.open
               THEN [nats EXCEPT !.op = [pc |-> "idle", h |-> 0, ret |-> res]]
               ELSE [Disconnected(nats) EXCEPT
                       !.op = [pc |-> "idle", h |-> 0, ret |-> "notconnected"]]
    /\ UNCHANGED notNats

NextNats ==
    \/ NatsConnectRefused
    \/ NatsConnectFails
    \/ NatsConnect
    \/ NatsConnectAgain
    \/ NatsClose
    \/ NatsOpBegin
    \/ \E res \in {"nil", "err"} : NatsPublish(res)
    \/ \E res \in {"msg", "ctxerr"} : NatsReadWait(res)

SpecNats == InitNats /\ [][NextNats]_vars

\* ----------------------------------------------- gcp_cloud_storage input

\* Objects are numbered in the order they are listed.  gcs.obj[o] says how
\* far object o has come: "pending" (listed), "failed" (could not be
\* opened), "read" (its message was returned by ReadBatch), "lost" (the
\* scanner failed), "acked" or "nacked".  The codec is the default,
\* all-bytes: one message per object, whose acknowledgement is the one
\* given to the scanner.

DeleteOnAnyAck(del, prevRes, err) == TRUE

\* The function deleteGCPCloudStorageObjectAckFn returns, as the decision
\* to call Delete.  prevRes is what prev returns, "none" without a prev.
DeletesOnAck(del, prevRes, err) ==
    IF prevRes \notin {"none", "nil"} THEN FALSE
    ELSE IF ~del \/ err # "nil" THEN FALSE
    ELSE TRUE

\* Connect: the objects of the bucket are listed, each with its ackFn.
InitGcs ==
    /\ KinesisIdle
    /\ drop = DropIdle
    /\ dedupe = DedupeIdle
    /\ dyn = DynIdle
    /\ sqs = SqsIdle
    /\ nats = NatsIdle
    /\ svc = SvcIdle
    /\ keyReader = KeyReaderIdle
    /\ pull = PullIdle
    /\ \E d \in BOOLEAN : \E n \in 1..MaxObjects :
         gcs = [GcsIdle EXCEPT !.del = d, !.listed = n,
                               !.obj = [o \in 1..n |-> "pending"]]

\* ReadBatch.  An object that is open has given its one message: its
\* scanner ends and is closed.  Then the next target is popped and opened;
\* if that fails its ackFn is called with the error.  how: "ok", "open"
\* (Attrs, NewReader or the scanner constructor fails) or "scan" (the
\* scanner fails, no acknowledgement is made).
GcsReadBatch(how) ==
    /\ gcs.ret # "closed"
    /\ IF gcs.next > gcs.listed
       THEN gcs' = [gcs EXCEPT !.object = 0, !.ret = "closed"]
       ELSE LET o == gcs.next IN
            gcs' = [gcs EXCEPT
                      !.next = @ + 1,
                      !.object = IF how = "ok" THEN o ELSE 0,
                      !.obj[o] = CASE how = "ok" -> "read"
                                   [] how = "open" -> "failed"
                                   [] how = "scan" -> "lost",
                      !.deleted = IF how = "open" /\ DeletesOnAck(gcs.del, "none", "err")
                                  THEN @ \cup {o} ELSE @,
                      !.ret = IF how = "ok" THEN "nil" ELSE "err"]
    /\ UNCHANGED notGcs

\* The acknowledgement of a message that ReadBatch returned; a Delete that
\* is called may itself fail.
GcsAck(o, res, deleteOk) ==
    /\ o \in 1..gcs.listed
    /\ gcs.obj[o] = "read"
    /\ gcs' = [gcs EXCEPT
                 !.obj[o] = IF res = "nil" THEN "acked" ELSE "nacked",
                 !.deleted = IF DeletesOnAck(gcs.del, "none", res) /\ deleteOk
                             THEN @ \cup {o} ELSE @]
    /\ UNCHANGED notGcs

NextGcs ==
    \/ \E how \in {"ok", "open", "scan"} : GcsReadBatch(how)
    \/ \E o \in 1..MaxObjects : \E res \in {"nil", "err"} : \E ok \in BOOLEAN :
         GcsAck(o, res, ok)

SpecGcs == InitGcs /\ [][NextGcs]_vars

\* ------------------------------------------------------ PullRunner.Stop

\* Time is counted in seconds from the call of Stop (svc.elapsed); svc.since
\* is when the context of the current step was made.  The caller's context
\* has no deadline.  A step that waits ends at its deadline at the latest:
\* time does not pass beyond it.

\* withExitContext: the timeout of the context Stop gives to the stream
\* and the manager.
ExitTimeout == IF svc.timeout <= 0 THEN defaultCloseDeadline ELSE svc.timeout

\* How long the current step may still take.
StepLimit ==
    CASE svc.pc = "leave" -> LeaveTimeout
      [] svc.pc = "delay" -> svc.delay
      [] svc.pc \in {"stream", "mgr"} -> ExitTimeout
      [] OTHER -> 0

InitRunner ==
    /\ KinesisIdle
    /\ drop = DropIdle
    /\ dedupe = DedupeIdle
    /\ dyn = DynIdle
    /\ sqs = SqsIdle
    /\ nats = NatsIdle
    /\ gcs = GcsIdle
    /\ keyReader = KeyReaderIdle
    /\ pull = PullIdle
    /\ \E t \in 0..MaxTimeout : \E d \in 0..MaxDelay : \E m \in BOOLEAN :
         svc = [SvcIdle EXCEPT !.timeout = t, !.delay = d, !.mgr = m]

\* A second passes while Stop waits.
SvcTick ==
    /\ svc.pc \in {"leave", "delay", "stream", "mgr"}
    /\ svc.elapsed - svc.since < StepLimit
    /\ svc' = [svc EXCEPT !.elapsed = @ + 1]
    /\ UNCHANGED notSvc

\* Stop is called: it tells the session that it leaves, within a second.
SvcStop ==
    /\ svc.pc = "running"
    /\ svc' = [svc EXCEPT !.pc = "leave", !.elapsed = 0, !.since = 0]
    /\ UNCHANGED notSvc

\* The step after the shutdown delay, if any: the exit context is made.
AfterLeave(v) ==
    [v EXCEPT !.pc = IF v.delay > 0 THEN "delay" ELSE "stream", !.since = v.elapsed]

\* Leave returns, with or without an error, which is only logged.
SvcLeft ==
    /\ svc.pc = "leave"
    /\ svc' = AfterLeave(svc)
    /\ UNCHANGED notSvc

\* DelayShutdown returns when the delay is over.
SvcDelayed ==
    /\ svc.pc = "delay"
    /\ svc.elapsed - svc.since = svc.delay
    /\ svc' = [svc EXCEPT !.pc = "stream", !.since = svc.elapsed]
    /\ UNCHANGED notSvc

\* What Stop does after the stream failed to stop: the dump, and the
\* error is returned.
AfterStreamFailure(v, res) ==
    [v EXCEPT !.dumped = TRUE, !.ret = res, !.pc = "done"]

\* stoppableStream.Stop returns: nil, an error, or the error of the
\* context at its deadline.
SvcStreamStop(res) ==
    /\ svc.pc = "stream"
    /\ res = "timeout" <=> svc.elapsed - svc.since = ExitTimeout
    /\ svc' = IF res = "nil"
              THEN IF svc.mgr
                   THEN [svc EXCEPT !.streamStopped = TRUE, !.pc = "mgr"]
                   ELSE [svc EXCEPT !.streamStopped = TRUE, !.pc = "done", !.ret = "nil"]
              ELSE AfterStreamFailure(svc, res)
    /\ UNCHANGED notSvc

\* stoppableMgr.Stop returns, under the same context.
SvcMgrStop(res) ==
    /\ svc.pc = "mgr"
    /\ res = "timeout" <=> svc.elapsed - svc.since = ExitTimeout
    /\ svc' = IF res = "nil"
              THEN [svc EXCEPT !.mgrStopped = TRUE, !.pc = "done", !.ret = "nil"]
              ELSE [svc EXCEPT !.dumped = TRUE, !.pc = "done", !.ret = res]
    /\ UNCHANGED notSvc

StopResults == {"nil", "err", "timeout"}

NextRunner ==
    \/ SvcTick
    \/ SvcStop
    \/ SvcLeft
    \/ SvcDelayed
    \/ \E res \in StopResults : SvcStreamStop(res)
    \/ \E res \in StopResults : SvcMgrStop(res)

SpecRunner == InitRunner /\ [][NextRunner]_vars

\* ------------------------------------------------------------- CLI app

\* The app runs one stream: its input has produced svc.produced messages,
\* svc.written of them are in the output and svc.acked of those have been
\* acknowledged to the input.  When the context of RunContext ends the
\* service stops the stream under system_close_timeout.

ExitAlwaysZero(res) == 0

\* Exit codes: 0 normal, 1 on shutdown timeout.
ExitCode(res) == IF res = "nil" THEN 0 ELSE 1

InitCli ==
    /\ KinesisIdle
    /\ drop = DropIdle
    /\ dedupe = DedupeIdle
    /\ dyn = DynIdle
    /\ sqs = SqsIdle
    /\ nats = NatsIdle
    /\ gcs = GcsIdle
    /\ keyReader = KeyReaderIdle
    /\ pull = PullIdle
    /\ \E t \in 0..MaxTimeout : svc = [SvcIdle EXCEPT !.timeout = t]

\* The input produces a message.
CliProduce ==
    /\ svc.pc \in {"running", "stream"}
    /\ svc.produced < MaxMsgs
    /\ svc' = [svc EXCEPT !.produced = @ + 1]
    /\ UNCHANGED notSvc

\* The output writes the next message.
CliWrite ==
    /\ svc.pc \in {"running", "stream"}
    /\ svc.written < svc.produced
    /\ svc' = [svc EXCEPT !.written = @ + 1]
    /\ UNCHANGED notSvc

\* The output acknowledges a message it has written.
CliAck ==
    /\ svc.pc \in {"running", "stream"}
    /\ svc.acked < svc.written
    /\ svc' = [svc EXCEPT !.acked = @ + 1]
    /\ UNCHANGED notSvc

\* The context of RunContext is cancelled or reaches its deadline: the
\* service begins to stop the stream.
CliCancel ==
    /\ svc.pc = "running"
    /\ svc' = [svc EXCEPT !.pc = "stream", !.elapsed = 0, !.since = 0]
    /\ UNCHANGED notSvc

\* The stream has stopped or failed to within the timeout: RunService
\* returns its code.
CliStopped(res) ==
    /\ svc.pc = "stream"
    /\ res = "timeout" <=> svc.elapsed - svc.since = ExitTimeout
    /\ svc' = [svc EXCEPT !.streamStopped = (res = "nil"), !.dumped = (res # "nil"),
                          !.ret = res, !.code = ExitCode(res), !.pc = "done"]
    /\ UNCHANGED notSvc

\* The Action of the app: a code other than 0 ends the process with it,
\* else RunContext returns nil.
CliAction ==
    /\ svc.pc = "done"
    /\ svc' = [svc EXCEPT !.pc = IF svc.code # 0 THEN "exited" ELSE "returned"]
    /\ UNCHANGED notSvc

NextCli ==
    \/ CliProduce
    \/ CliWrite
    \/ CliAck
    \/ CliCancel
    \/ SvcTick
    \/ \E res \in StopResults : CliStopped(res)
    \/ CliAction

SpecCli == InitCli /\ [][NextCli]_vars

\* ----------------------------------------------- leases that run out

\* Two connected clients and two open shards with records in the first; the
\* clock runs and commits can fail.
InitLease ==
    /\ InitConnected
    /\ shards = {1, 2}
    /\ finished = {}
    /\ streamLen = Records
    /\ faults = 0
    /\ closers = {}
    /\ startFromOldest = TRUE
    /\ OthersIdle

\* Time passes.
Tick ==
    /\ now < MaxNow
    /\ now' = now + 1
    /\ UNCHANGED <<row, streamVars, faults, readerVars, alloc, consVars, ackedNil>>
    /\ UNCHANGED otherVars

\* The periodic commit, Checkpoint returns an error: it is logged and the
\* consumer carries on, its lease not renewed.
CommitFail(c, s) ==
    /\ cstate[c][s] \in Running
    /\ ~Drained(c, s)
    /\ ~ctxDone[c]
    /\ UNCHANGED vars

\* Rebalancing while leases age.
NextLease ==
    \/ AllocNext
    \/ Tick
    \/ \E c \in Clients, s \in AllShards : Commit(c, s)
    \/ \E c \in Clients, s \in AllShards : CommitFail(c, s)
    \/ \E c \in Clients, s \in AllShards : YieldExit(c, s)
    \/ \E s \in AllShards : CloseShard(s)

SpecLease == InitLease /\ [][NextLease]_vars

\* ------------------------------------- shutdown with failing starts

\* Nothing is connected yet; consumers can fail to start and the first
\* reader is the one that gets closed.
InitStop ==
    /\ InitCommon
    /\ msgChan = [c \in Clients |-> "nil"]
    /\ alloc = [c \in Clients |-> AllocAt("idle")]
    /\ shards = {1, 2}
    /\ finished = {}
    /\ streamLen = Records
    /\ faults = MaxFaults
    /\ closers = {"c1"}
    /\ startFromOldest = TRUE
    /\ OthersIdle

NextStop ==
    \/ NextClose
    \/ \E c \in Clients, s \in AllShards : StartFail(c, s)

SpecStop == InitStop /\ [][NextStop]_vars

\* ------------------------------------------- the life of a consumer

\* The first client consumes shards 1 and 2 while records arrive; the second
\* client has just stolen shard 2 and consumes it too.  The first client is
\* the one that gets closed.
InitLife ==
    /\ now = 0
    /\ row = [s \in AllShards |->
                IF s = 1 THEN [client |-> "c1", seq |-> 0, lease |-> LeasePeriod]
                ELSE IF s = 2 THEN [client |-> "c2", seq |-> 0, lease |-> LeasePeriod]
                ELSE FreeRow]
    /\ ctxDone = [c \in Clients |-> FALSE]
    /\ closeRet = [c \in Clients |-> "none"]
    /\ closes = [c \in Clients |-> 0]
    /\ cstate = [c \in Clients |-> [s \in AllShards |->
                   IF (c = "c1" /\ s \in {1, 2}) \/ (c = "c2" /\ s = 2)
                   THEN "Consuming" ELSE "None"]]
    /\ startSeq = [c \in Clients |-> [s \in AllShards |-> 0]]
    /\ iter = [c \in Clients |-> [s \in AllShards |-> 0]]
    /\ pendHi = [c \in Clients |-> [s \in AllShards |-> 0]]
    /\ sentHi = [c \in Clients |-> [s \in AllShards |-> 0]]
    /\ flight = [c \in Clients |-> [s \in AllShards |-> {}]]
    /\ held = [c \in Clients |-> [s \in AllShards |->
                 IF (c = "c1" /\ s \in {1, 2}) \/ (c = "c2" /\ s = 2)
                 THEN LeasePeriod ELSE 0]]
    /\ ackedNil = [s \in AllShards |-> {}]
    /\ msgChan = [c \in Clients |-> "open"]
    /\ alloc = [c \in Clients |-> AllocAt("pass")]
    /\ shards = {1, 2}
    /\ finished = {}
    /\ streamLen = NoRecords
    /\ faults = 0
    /\ closers = {"c1"}
    /\ startFromOldest = TRUE
    /\ OthersIdle

\* Consuming shard 1 to its end or to the shutdown, and shard 2 to the
\* commit that finds it stolen.
NextLife ==
    \/ PutRecord(1)
    \/ CloseShard(1)
    \/ \E c \in Clients : Close(c)
    \/ \E c \in Clients, s \in AllShards : Pull(c, s)
    \/ \E c \in Clients, s \in AllShards : RefreshIter(c, s)
    \/ \E c \in Clients, s \in AllShards : RefreshFail(c, s)
    \/ \E c \in Clients, s \in AllShards : Dispatch(c, s)
    \/ \E c \in Clients, s \in AllShards : Ack(c, s)
    \/ \E c \in Clients, s \in AllShards : Commit(c, s)
    \/ \E c \in Clients, s \in AllShards : YieldExit(c, s)
    \/ \E c \in Clients, s \in AllShards : CloseExit(c, s)
    \/ \E c \in Clients, s \in AllShards : FinishExit(c, s)

SpecLife == InitLife /\ [][NextLife]_vars

\* ------------------------------------ gcp_cloud_storage target reader

\* The objects under the prefix are numbered 1..keyReader.n in listing
\* order; the iterator has yielded the first keyReader.it of them, and
\* keyReader.done says that it has answered iterator.Done, which it goes on to
\* do.  keyReader.errs is the number of times the listing can still fail and
\* keyReader.broke that it has failed in Pop with objects already fetched.

\* What the loop over it.Next() can do: it appends k objects and then either
\* ends (the page is full or the iterator is done) or meets an error.
MinNat(a, b) == IF a < b THEN a ELSE b

PageFull(r) == MinNat(maxGCPCloudStorageListObjectsResults, r.n - r.it)

Fetched(r, k) == [i \in 1..k |-> r.it + i]

ForgetFetched(pending) == <<>>

\* The pending list Pop leaves behind when the listing fails.
KeepFetched(pending) == pending

InitReader ==
    /\ KinesisIdle
    /\ drop = DropIdle
    /\ dedupe = DedupeIdle
    /\ dyn = DynIdle
    /\ sqs = SqsIdle
    /\ nats = NatsIdle
    /\ gcs = GcsIdle
    /\ svc = SvcIdle
    /\ pull = PullIdle
    /\ \E n \in 0..MaxListed : \E e \in 0..MaxListErrs :
         keyReader = [KeyReaderIdle EXCEPT !.n = n, !.errs = e]

\* newGCPCloudStorageTargetReader, the listing succeeds: the first page is
\* pending, and the iterator is kept if there is anything pending.
NewTargetReader ==
    /\ ~keyReader.made
    /\ LET k == PageFull(keyReader) IN
       keyReader' = [keyReader EXCEPT
                       !.made = TRUE, !.it = k, !.pending = Fetched(keyReader, k),
                       !.startAfter = (k > 0),
                       !.done = (k < maxGCPCloudStorageListObjectsResults)]
    /\ UNCHANGED notKeyReader

\* newGCPCloudStorageTargetReader, the listing fails: no reader is returned.
NewTargetReaderFails ==
    /\ ~keyReader.made
    /\ keyReader.errs > 0
    /\ keyReader' = [keyReader EXCEPT !.errs = @ - 1, !.ret = "err"]
    /\ UNCHANGED notKeyReader

\* What Pop returns once its pending list is settled.
PopFrom(r) ==
    IF r.pending = <<>>
    THEN [r EXCEPT !.ret = "eof"]
    ELSE [r EXCEPT !.ret = "obj", !.popped = Append(@, Head(r.pending)),
                   !.pending = Tail(@)]

\* Pop with something pending, or without an iterator.
Pop ==
    /\ keyReader.made
    /\ ~(keyReader.pending = <<>> /\ keyReader.startAfter)
    /\ keyReader' = PopFrom(keyReader)
    /\ UNCHANGED notKeyReader

\* Pop with nothing pending: a further page is fetched first.
PopFetch ==
    /\ keyReader.made
    /\ keyReader.pending = <<>> /\ keyReader.startAfter
    /\ LET k == PageFull(keyReader) IN
       keyReader' = PopFrom([keyReader EXCEPT
                               !.it = @ + k,
                               !.pending = Fetched(keyReader, k),
                               !.done = (k < maxGCPCloudStorageListObjectsResults)])
    /\ UNCHANGED notKeyReader

\* Pop with nothing pending, the listing fails after k objects: the error
\* is returned.
PopFetchFails(k) ==
    /\ keyReader.made
    /\ keyReader.pending = <<>> /\ keyReader.startAfter
    /\ keyReader.errs > 0
    /\ ~keyReader.done
    /\ k < maxGCPCloudStorageListObjectsResults
    /\ k <= keyReader.n - keyReader.it
    /\ keyReader' = [keyReader EXCEPT
                       !.it = @ + k, !.errs = @ - 1, !.ret = "err",
                       !.pending = KeepFetched(Fetched(keyReader, k)),
                       !.broke = (@ \/ k > 0)]
    /\ UNCHANGED notKeyReader

NextReader ==
    \/ NewTargetReader
    \/ NewTargetReaderFails
    \/ Pop
    \/ PopFetch
    \/ \E k \in 0..maxGCPCloudStorageListObjectsResults : PopFetchFails(k)

SpecReader == InitReader /\ [][NextReader]_vars

\* -------------------------------- dynamic brokers, requests that race

\* dyn.hs[h] is the handler of request h: "idle", "called" (OnUpdate has
\* recorded its configuration, or OnDelete was called, and SetInput or
\* SetOutput is about to be called), "ok" or "failed" (it has returned).
\* dyn.up[i] says that the API holds a start record for i: Started was
\* called for it after the last Stopped.  The broker takes one request at a
\* time; no transactions are under way, so a child stops at once.

InitRace ==
    /\ KinesisIdle
    /\ drop = DropIdle
    /\ dedupe = DedupeIdle
    /\ sqs = SqsIdle
    /\ nats = NatsIdle
    /\ gcs = GcsIdle
    /\ svc = SvcIdle
    /\ keyReader = KeyReaderIdle
    /\ pull = PullIdle
    /\ \E k \in {"input", "output"} : \E static \in SUBSET Ids :
         dyn = [DynIdle EXCEPT
                  !.kind = k,
                  !.child = [i \in Ids |-> IF i \in static THEN 1 ELSE 0],
                  !.started = [i \in Ids |-> IF i \in static THEN 1 ELSE 0],
                  !.up = [i \in Ids |-> i \in static]]

\* The requests served so far and being served.
RaceCalls == dyn.returns + Cardinality({h \in Handlers : dyn.hs[h].st # "idle"})

\* OnUpdate up to the call of SetInput or SetOutput: the component is
\* constructed and its configuration recorded under the id.
RaceUpdate(h, i) ==
    /\ dyn.hs[h].st = "idle"
    /\ RaceCalls < MaxReturns
    /\ dyn' = [dyn EXCEPT
                 !.gen = @ + 1,
                 !.configs[i] = dyn.gen + 1,
                 !.hs[h] = [st |-> "called", id |-> i, gen |-> dyn.gen + 1]]
    /\ UNCHANGED notDyn

\* OnDelete up to the call of SetInput or SetOutput with nil.
RaceDelete(h, i) ==
    /\ dyn.hs[h].st = "idle"
    /\ RaceCalls < MaxReturns
    /\ dyn' = [dyn EXCEPT !.hs[h] = [st |-> "called", id |-> i, gen |-> 0]]
    /\ UNCHANGED notDyn

\* The second callback of the broker, called when a child has stopped.
OnRemove(d, i) == [d EXCEPT !.up[i] = FALSE]

\* The first callback together with the start record it makes.
OnAddUp(d, i) ==
    IF d.configs[i] = 0 THEN d ELSE [OnAdd(d, i) EXCEPT !.up[i] = TRUE]

\* The broker serves the request of handler h: a child under the id is
\* stopped and the second callback called; the new component, if there is
\* one and it can be started, is installed and the first callback called.
RaceSet(h, ok) ==
    /\ dyn.hs[h].st = "called"
    /\ LET i == dyn.hs[h].id
           g == dyn.hs[h].gen
           removed == IF dyn.child[i] = 0 THEN dyn
                      ELSE OnRemove([dyn EXCEPT !.child[i] = 0], i) IN
       dyn' = IF g = 0
              THEN [removed EXCEPT !.hs[h].st = "ok"]
              ELSE IF ok
              THEN OnAddUp([removed EXCEPT !.child[i] = g, !.hs[h].st = "ok"], i)
              ELSE [removed EXCEPT !.hs[h].st = "failed"]
    /\ UNCHANGED notDyn

\* The rest of OnUpdate and OnDelete: after a failed SetInput or SetOutput
\* the configuration under the id is deleted; the handler returns.
RaceReturn(h) ==
    /\ dyn.hs[h].st \in {"ok", "failed"}
    /\ dyn' = [dyn EXCEPT
                 !.configs = IF dyn.hs[h].st = "failed" /\ dyn.hs[h].gen # 0
                             THEN ForgetConfig(@, dyn.hs[h].id) ELSE @,
                 !.returns = @ + 1,
                 !.hs[h] = [st |-> "idle", id |-> "a", gen |-> 0]]
    /\ UNCHANGED notDyn

NextRace ==
    \/ \E h \in Handlers, i \in Ids : RaceUpdate(h, i)
    \/ \E h \in Handlers, i \in Ids : RaceDelete(h, i)
    \/ \E h \in Handlers, ok \in BOOLEAN : RaceSet(h, ok)
    \/ \E h \in Handlers : RaceReturn(h)

SpecRace == InitRace /\ [][NextRace]_vars


\* ------------------------------------------------ the studio PullRunner

\* The main configs of the session; 0 stands for none.
Confs == 1..MaxConf

\* The no-op stopper: nothing runs.
NoStream == [conf |-> 0, mgr |-> 0, up |-> FALSE]

\* A stream of config conf built on manager mgr, running.
NewStream(conf, mgr) == [conf |-> conf, mgr |-> mgr, up |-> TRUE]

StreamRunning(p) == p.stoppableStream.conf # 0 /\ p.stoppableStream.up

\* What a Replace can come to: the no-op stopper never fails to stop and
\* never fails to be built; a running stream may fail to stop in time, the
\* build of a stream may fail.
ReplaceOutcome(cur, build, o) ==
    IF o = "stopErr" /\ cur.conf # 0 /\ cur.up THEN "stopErr"
    ELSE IF o = "newErr" /\ build.conf # 0 THEN "newErr"
    ELSE "ok"

\* SwappableStopper.Replace: stops the current one, then builds the next one
\* and keeps it. When the stop fails the current one is kept as it is, when
\* the build fails the stopped one is kept.
Replace(cur, build, o) ==
    LET out == ReplaceOutcome(cur, build, o)
    IN  [s   |-> CASE out = "ok" -> build
                   [] out = "stopErr" -> cur
                   [] out = "newErr" -> [cur EXCEPT !.up = FALSE],
         err |-> out # "ok"]

\* A reset that swaps the stream whatever the deployment flag says.
NeverSkips(p) == FALSE

\* triggerStreamReset leaves the stream alone while the deployment is
\* disabled.
SkipsReset(p) == p.isDisabled

\* triggerStreamReset: records the config, then swaps the stream for one of
\* this config unless the deployment is disabled.
TriggerStreamReset(p, conf, mgr, o) ==
    LET q == [p EXCEPT !.latestMainConf = conf]
        r == Replace(q.stoppableStream, NewStream(conf, mgr), o)
    IN  IF SkipsReset(q) THEN [q EXCEPT !.ret = "nil"]
        ELSE [q EXCEPT !.stoppableStream = r.s,
                       !.ret = IF r.err THEN "err" ELSE "nil"]

\* setStreamDisabled: nothing when the flag has the value already; otherwise
\* the stream is swapped (for the no-op stopper, or for a stream of the latest
\* main config) and the flag is set once the swap went through.
SetStreamDisabled(p, toDisabled, o) ==
    IF p.isDisabled = toDisabled THEN [p EXCEPT !.ret = "nil"]
    ELSE LET build == IF toDisabled THEN NoStream
                      ELSE NewStream(p.latestMainConf, p.mgr)
             r == Replace(p.stoppableStream, build, o)
         IN  IF ~toDisabled /\ (p.latestMainConf = 0 \/ p.mgr = 0)
             THEN [p EXCEPT !.isDisabled = toDisabled, !.ret = "nil"]
             ELSE IF r.err
             THEN [p EXCEPT !.stoppableStream = r.s, !.ret = "err"]
             ELSE [p EXCEPT !.stoppableStream = r.s,
                            !.isDisabled = toDisabled, !.ret = "nil"]

\* Where a bootstrap can fail: reading the config (or its lints under strict
\* mode), creating the manager, and parsing the shutdown delay or timeout of
\* the config; the stream reset in between fails as Replace does.
BootFailures == {"none", "read", "manager", "delay"}

\* bootstrapConfigReader, attempt n == p.boots + 1 with its own config reader
\* and manager: a failure closes the reader and stops the manager, if it got
\* that far, and leaves confReader, mgr and stoppableMgr as they were.
BootstrapConfigReader(p, conf, o, fail) ==
    LET n == p.boots + 1
        q == TriggerStreamReset(p, conf, n, o)
    IN  CASE fail \in {"read", "manager"} ->
               [p EXCEPT !.boots = n, !.closed = @ \cup {n}, !.ret = "err"]
          [] fail \notin {"read", "manager"} /\ q.ret = "err" ->
               [q EXCEPT !.boots = n, !.closed = @ \cup {n},
                         !.stopped = @ \cup {n}]
          [] fail = "delay" /\ q.ret # "err" ->
               [q EXCEPT !.boots = n, !.closed = @ \cup {n},
                         !.stopped = @ \cup {n}, !.ret = "err"]
          [] fail = "none" /\ q.ret # "err" ->
               [q EXCEPT !.boots = n, !.stoppableMgr = n, !.mgr = n,
                         !.confReader = n, !.ret = "nil"]

InitPull ==
    /\ KinesisIdle
    /\ drop = DropIdle
    /\ dedupe = DedupeIdle
    /\ dyn = DynIdle
    /\ sqs = SqsIdle
    /\ nats = NatsIdle
    /\ gcs = GcsIdle
    /\ svc = SvcIdle
    /\ keyReader = KeyReaderIdle
    /\ pull = PullIdle

\* NewPullRunner ends with a first bootstrap and returns the runner whether
\* or not it went through.
NewPullRunner(conf, o, fail) ==
    /\ pull.pc = "new"
    /\ pull' = [BootstrapConfigReader(pull, conf, o, fail) EXCEPT
                  !.pc = "run", !.op = "bootstrap", !.to = FALSE, !.main = 0]
    /\ UNCHANGED notPull

\* Sync, the session cannot be reached: nothing is done.
SyncFails ==
    /\ pull.pc = "run"
    /\ pull' = [pull EXCEPT !.op = "none", !.ret = "none", !.to = FALSE,
                            !.main = 0]
    /\ UNCHANGED notPull

\* Sync without a config reader, the deployment disabled: no bootstrap.
SyncSkip ==
    /\ pull.pc = "run"
    /\ pull.confReader = 0
    /\ pull' = [pull EXCEPT !.op = "skip", !.ret = "none", !.to = TRUE,
                            !.main = 0]
    /\ UNCHANGED notPull

\* Sync without a config reader, the deployment enabled: it bootstraps again.
SyncBootstrap(conf, o, fail) ==
    /\ pull.pc = "run"
    /\ pull.confReader = 0
    /\ pull.boots < MaxBoots
    /\ pull' = [BootstrapConfigReader(pull, conf, o, fail) EXCEPT
                  !.op = "bootstrap", !.to = FALSE, !.main = 0]
    /\ UNCHANGED notPull

\* Sync of a bootstrapped runner: the deployment flag is followed, and then,
\* unless that failed, a new main config (main # 0) is handed to the config
\* reader, which calls triggerStreamReset with the runner's manager unless
\* the config does not pass its checks (bad).
Sync(isDisabled, main, bad, o1, o2) ==
    /\ pull.pc = "run"
    /\ pull.confReader # 0
    /\ LET q == SetStreamDisabled(pull, isDisabled, o1)
           r == IF q.ret = "err" \/ main = 0 \/ bad THEN q
                ELSE [TriggerStreamReset(q, main, q.mgr, o2) EXCEPT
                        !.ret = q.ret]
       IN  pull' = [r EXCEPT !.op = "sync", !.to = isDisabled, !.main = main]
    /\ UNCHANGED notPull

ReplaceOutcomes == {"ok", "stopErr", "newErr"}

NextPull ==
    \/ \E conf \in Confs, o \in ReplaceOutcomes, fail \in BootFailures :
         NewPullRunner(conf, o, fail)
    \/ SyncFails
    \/ SyncSkip
    \/ \E conf \in Confs, o \in ReplaceOutcomes, fail \in BootFailures :
         SyncBootstrap(conf, o, fail)
    \/ \E isDisabled \in BOOLEAN, main \in 0..MaxConf, bad \in BOOLEAN,
          o1 \in ReplaceOutcomes, o2 \in ReplaceOutcomes :
         Sync(isDisabled, main, bad, o1, o2)

SpecPull == InitPull /\ [][NextPull]_vars

\* ------------------------------------------------------------ properties

\* C1: at any instant each shard is being consumed by at most one client
\* whose lease has not expired.
ExclusiveConsumption ==
    \A s \in AllShards :
        Cardinality({c \in Clients : /\ cstate[c][s] \in Running
                                     /\ held[c][s] > now}) <= 1

\* C2: the sequence stored for a shard never moves backwards.
SequenceNeverBackwards ==
    [][\A s \in AllShards : row'[s].seq >= row[s].seq]_vars

\* C3: the sequence stored for a shard covers only records that were
\* acknowledged with a nil error.
CheckpointOnlyAcked ==
    \A s \in AllShards : \A q \in 1..row[s].seq : q \in ackedNil[s]

\* A client shut down with every record of shard 1 checkpointed, the second
\* record having been acknowledged while the first was still in flight.
CheckpointOnlyAckedWitness ==
    /\ row[1].seq = MaxSeq
    /\ row[1].client = NoClient
    /\ ctxDone["c1"]

ShutdownReleasesLease ==
    [][\A c \in Clients, s \in AllShards :
          (/\ ctxDone[c]
           /\ cstate[c][s] \in Running
           /\ cstate'[c][s] = "None"
           /\ StillOwned(c, s))
              => (/\ row'[s].client = NoClient
                  /\ row'[s].seq = GetSequence(c, s))]_vars

\* Every record the consumer pulled has gone to the message channel.
HandedOver(c, s) == pendHi[c][s] = sentHi[c][s]

Attempted(c) == alloc[c].log # <<>>

\* C7 (as the source has it): a steal is attempted only from a client seen
\* to hold at least two shards more than the instance itself.
StealNeedsTwoMore ==
    \A c \in Clients :
        Attempted(c) => alloc[c].log[2] >= alloc[c].log[1] + 2

\* A client holding one shard has tried to steal from a client holding three.
StealNeedsTwoMoreWitness ==
    \E c \in Clients : Attempted(c) /\ alloc[c].log = <<1, 3>>

\* C7 (as stated): a steal is attempted only when the instance holds
\* strictly fewer shards than the other client's holdings minus two.
StealNeedsMinusTwo ==
    \A c \in Clients :
        Attempted(c) => alloc[c].log[1] < alloc[c].log[2] - 2

\* Every shard is held and the two clients' holdings differ by exactly one.
OffByOne ==
    /\ \A s \in shards : row[s].client # NoClient
    /\ Cardinality(AllClaims["c1"]) - Cardinality(AllClaims["c2"]) \in {-1, 1}

\* C8: with an odd number of shards, once every shard is held and the
\* holdings differ by exactly one, they stay so and no steal is attempted.
OddShardStaysPut ==
    [][(Cardinality(shards) % 2 = 1 /\ OffByOne)
          => (/\ OffByOne'
              /\ \A c \in Clients : Attempted(c)' => Attempted(c)
              /\ \A s \in shards : row'[s].client = row[s].client)]_vars

\* With three shards split two to one, the client holding one runs a later
\* rebalance pass and looks at the other client's holdings.
OddShardStaysPutWitness ==
    /\ Cardinality(shards) = 3
    /\ OffByOne
    /\ \E c \in Clients :
          /\ alloc[c].pc = "stealing"
          /\ Cardinality(alloc[c].claims[c]) = 1

\* C9: under fair scheduling, eventually each client owns at least one of
\* the four shards, and it stays that way.
EachClientOwnsAShard ==
    <>[](\A c \in Clients : AllClaims[c] # {})

\* The second client got its shard by stealing it from the first.
EachClientOwnsAShardWitness ==
    /\ \A c \in Clients : AllClaims[c] # {}
    /\ \E c \in Clients : Attempted(c) /\ alloc[c].log = <<0, 4>>

\* Connect has started the reader's allocation goroutine.
Started(c) == alloc[c].pc # "idle"

\* Every goroutine of the reader has returned and its channels are closed.
Terminated(c) ==
    /\ alloc[c].pc = "done"
    /\ \A s \in AllShards : cstate[c][s] = "None"
    /\ msgChan[c] = "closed"
    /\ closes[c] = 1

\* C10: the channels are closed at most once and only after every consumer
\* has returned; Close returns nil only then; and once the context of a
\* connected reader is cancelled all its goroutines terminate and Close
\* returns.
CloseTerminates ==
    /\ [](\A c \in Clients :
            /\ closes[c] <= 1
            /\ msgChan[c] = "closed" => Terminated(c)
            /\ closeRet[c] = "nil" => Terminated(c))
    /\ \A c \in Clients : (Started(c) /\ ctxDone[c]) ~> Terminated(c)
    /\ \A c \in Clients :
          (Started(c) /\ closeRet[c] = "waiting")
              ~> (closeRet[c] \in {"nil", "ctxerr"})

\* Close has returned nil for a reader that had checkpointed a record while
\* the other reader goes on.
CloseTerminatesWitness ==
    \E c \in Clients :
        /\ closeRet[c] = "nil"
        /\ Terminated(c)
        /\ row[1].seq > 0
        /\ \E d \in Clients \ {c} : ~ctxDone[d] /\ Started(d)

\* C11: a reader none of whose goroutines was started (Connect has not
\* succeeded) is unconnected, so that the next Connect tries again instead of
\* returning nil at "if k.msgChan != nil".
FailedConnectStaysUnconnected ==
    \A c \in Clients : alloc[c].pc = "idle" => msgChan[c] = "nil"

\* C12: when an expired iterator is replaced the consumer stays in Consuming
\* and the new iterator stands immediately after the latest acknowledged
\* sequence, so that no record after that sequence is skipped.
RefreshResumesAfterAcked ==
    [][\A c \in Clients, s \in AllShards :
          (/\ cstate[c][s] = "Consuming"
           /\ pendHi'[c][s] = pendHi[c][s]
           /\ iter'[c][s] # iter[c][s])
              => (/\ cstate'[c][s] = "Consuming"
                  /\ iter'[c][s] = GetSequence(c, s))]_vars

\* The transaction has been answered upstream or given up.
DropDone(t) == t < drop.txn \/ (t = drop.txn /\ drop.phase = "idle")

\* C13: with error = true, a transaction the child fails is answered nil
\* upstream, exactly once.
DropOnErrorRespondsNil ==
    drop.error =>
        \A t \in 1..MaxTrans :
            drop.childRes[t] = "err" =>
                /\ drop.resp[t] \in {<<>>, <<"nil">>}
                /\ DropDone(t) => drop.resp[t] = <<"nil">>

\* With error = true the child has failed two transactions, both answered.
DropOnErrorRespondsNilWitness ==
    /\ drop.error
    /\ drop.childRes[1] = "err" /\ drop.childRes[2] = "err"
    /\ DropDone(2)

\* C14: with error = false, a transaction the child fails is answered
\* upstream with the child's error, exactly once.
DropOnNothingSurfacesError ==
    ~drop.error =>
        \A t \in 1..MaxTrans :
            drop.childRes[t] = "err" =>
                /\ drop.resp[t] \in {<<>>, <<"err">>}
                /\ DropDone(t) => drop.resp[t] = <<"err">>

\* With error = false the child has failed two transactions, both answered.
DropOnNothingSurfacesErrorWitness ==
    /\ ~drop.error
    /\ drop.childRes[1] = "err" /\ drop.childRes[2] = "err"
    /\ DropDone(2)

\* The child did not accept the transaction in time.
TimedOut(t) == DropDone(t) /\ t \notin drop.took

RECURSIVE Flatten(_)
Flatten(bs) == IF bs = <<>> THEN <<>> ELSE Head(bs) \o Flatten(Tail(bs))

Emitted == Flatten(dedupe.out)

\* No cache access has failed.
CacheHealthy == \A i \in 1..Len(dedupe.input) : ~dedupe.input[i].failed

\* The message is the first with its key.
FirstOfKey(i) == \A j \in 1..(i - 1) : dedupe.input[j].key # dedupe.input[i].key

\* C16: with a working cache, the messages returned are exactly the first
\* message of every key, in the order they came in, and no returned batch
\* is empty.
FirstOfEachKeySurvives ==
    CacheHealthy =>
        /\ {Emitted[j] : j \in 1..Len(Emitted)}
              = {i \in 1..Len(dedupe.input) : FirstOfKey(i)}
        /\ \A j \in 1..(Len(Emitted) - 1) : Emitted[j] < Emitted[j + 1]
        /\ \A b \in 1..Len(dedupe.out) : dedupe.out[b] # <<>>

\* Three calls with four messages of two keys: one of the batches held a
\* key twice, and one call returned no batch.
FirstOfEachKeySurvivesWitness ==
    /\ CacheHealthy
    /\ Len(dedupe.input) = MaxMsgs
    /\ dedupe.calls = 3
    /\ Len(dedupe.out) < dedupe.calls
    /\ Len(Emitted) = 2

\* C17: a message whose cache access failed is returned exactly if
\* drop_on_err is false, and ProcessBatch has returned no error.
CacheErrFollowsDropOnErr ==
    /\ dedupe.errs = 0
    /\ \A i \in 1..Len(dedupe.input) :
          dedupe.input[i].failed =>
              ((\E j \in 1..Len(Emitted) : Emitted[j] = i) <=> ~dedupe.dropOnErr)

\* With drop_on_err = false a batch of two messages went through whole
\* while the cache could not be reached.
CacheErrFollowsDropOnErrWitness ==
    /\ ~dedupe.dropOnErr
    /\ Len(dedupe.input) >= 2
    /\ dedupe.input[1].failed /\ dedupe.input[2].failed
    /\ dedupe.calls = 1
    /\ dedupe.out = << <<1, 2>> >>

\* No transaction is with a child that is no longer there.
NothingLost == \A f \in dyn.inflight : dyn.child[f.id] = f.gen

\* C18: when Set replaces the child under an id, the old child holds no
\* transaction any more at the moment the new one is installed; no
\* transaction is ever left with a child that has gone.
SetDrainsOldChild ==
    /\ []NothingLost
    /\ [][\A i \in Ids :
            (dyn.child[i] # 0 /\ dyn'.child[i] # dyn.child[i]) => ChildDrained(i)]_vars

\* A child that held a transaction when it was told to stop has been
\* replaced, and what it held has been responded to.
SetDrainsOldChildWitness ==
    /\ dyn.req.busy
    /\ dyn.lastErr = "nil"
    /\ dyn.req.gen # 0
    /\ dyn.child[dyn.req.id] = dyn.req.gen
    /\ dyn.inflight = {}

\* C19: a transaction the dynamic output takes is handed to every child
\* there is; the response upstream is sent once, after every one of them
\* has responded, and is nil exactly if all of them responded nil.
FanOutAllOrError ==
    [][/\ dyn'.cur.t # dyn.cur.t =>
            \A i \in Ids : dyn.child[i] # 0 =>
                [t |-> dyn'.cur.t, id |-> i, gen |-> dyn.child[i]] \in dyn'.inflight
       /\ dyn.kind = "output" =>
            \A t \in 1..MaxTrans :
                /\ dyn.resp[t] # "none" => dyn'.resp[t] = dyn.resp[t]
                /\ (dyn.resp[t] = "none" /\ dyn'.resp[t] # "none") =>
                      /\ t = dyn.cur.t
                      /\ dyn.cur.nils \cup dyn.cur.errs = dyn.cur.targets
                      /\ \A i \in dyn.cur.targets :
                            [t |-> t, id |-> i, gen |-> dyn.child[i]] \notin dyn.inflight
                      /\ dyn'.resp[t] = "nil" <=> dyn.cur.errs = {}]_vars

\* Two children got a transaction, one responded nil and one with an
\* error, and upstream got the error.
FanOutAllOrErrorWitness ==
    /\ dyn.kind = "output"
    /\ dyn.cur.done
    /\ dyn.cur.targets = Ids
    /\ dyn.cur.nils # {}
    /\ dyn.cur.errs # {}
    /\ dyn.resp[dyn.cur.t] = "err"

\* C20: an update that fails before the component is installed changes no
\* child, no configuration and no transaction; after a failed installation
\* no configuration is recorded under the id.
FailedUpdateLeavesNoTrace ==
    [][dyn'.returns # dyn.returns =>
         /\ dyn'.lastErr \in {"parse", "construct", "wrap"} =>
               /\ dyn'.child = dyn.child
               /\ dyn'.configs = dyn.configs
               /\ dyn'.started = dyn.started
               /\ dyn'.inflight = dyn.inflight
         /\ dyn'.lastErr = "install" => dyn'.configs[dyn'.lastId] = 0]_vars

\* The replacement of a running child could not be installed: the handler
\* has returned the error, the configuration started before is still
\* there and the other child runs.
FailedUpdateLeavesNoTraceWitness ==
    /\ dyn.lastErr = "install"
    /\ dyn.req.st = "idle"
    /\ dyn.started[dyn.lastId] = 1
    /\ dyn.configs[dyn.lastId] = 0
    /\ \E i \in Ids \ {dyn.lastId} : dyn.child[i] = 1

\* C21: once the context of WriteBatch is cancelled the loop does not go
\* on to another request.
NoSendAfterCancel ==
    [][(sqs.ctxDone /\ sqs'.pc = "send") =>
          (sqs.pc = "send" /\ sqs'.sends = sqs.sends)]_vars

\* C29: WriteBatch returns nil only if the queue has accepted every
\* message of the batch.
NilOnlyIfAllAccepted ==
    (sqs.pc = "done" /\ sqs.ret = "nil") => sqs.accepted = {i \in 0..(sqs.n - 1) : TRUE}

\* A batch of more than two requests went through after a request that
\* failed as a whole and one with failed entries.
NilOnlyIfAllAcceptedWitness ==
    /\ sqs.pc = "done"
    /\ sqs.ret = "nil"
    /\ sqs.n > 2 * sqsMaxRecordsCount
    /\ sqs.whole
    /\ sqs.partial

\* C30: every request has between one and sqsMaxRecordsCount entries with
\* distinct Ids, none of them accepted before.
RequestsWellFormed ==
    [][sqs'.sends # sqs.sends =>
         /\ Len(sqs.input) \in 1..sqsMaxRecordsCount
         /\ \A j, k \in 1..Len(sqs.input) : sqs.input[j] = sqs.input[k] => j = k
         /\ Range(sqs.input) \cap sqs.accepted = {}]_vars

\* After a request with failed entries the next request is full: failed
\* entries first, then remaining ones, while more entries remain.
RequestsWellFormedWitness ==
    /\ sqs.partial
    /\ sqs.pc = "send"
    /\ Len(sqs.input) = sqsMaxRecordsCount
    /\ sqs.input[1] < sqsMaxRecordsCount
    /\ sqs.input[sqsMaxRecordsCount] >= sqsMaxRecordsCount
    /\ Len(sqs.entries) > 0

\* The keys of the message that the filter lets through and that are valid.
Eligible == {k \in sqs.meta : k \notin sqs.exclude /\ k \notin InvalidKeys}

\* C22: the attributes of a message are eligible metadata keys, all of
\* them if there are at most ten and else the ten that sort first.
AtMostTenAttributes ==
    sqs.walked =>
        /\ sqs.attrs \subseteq Eligible
        /\ Cardinality(sqs.attrs) =
              (IF Cardinality(Eligible) > 10 THEN 10 ELSE Cardinality(Eligible))
        /\ \A k \in sqs.attrs : \A o \in Eligible \ sqs.attrs : k < o

\* A message with more than ten eligible keys, an invalid one and an
\* excluded one.
AtMostTenAttributesWitness ==
    /\ sqs.walked
    /\ Cardinality(Eligible) > 10
    /\ sqs.meta \cap InvalidKeys # {}
    /\ sqs.meta \cap sqs.exclude # {}
    /\ Cardinality(sqs.attrs) = 10

\* C23: a reader without a live connection (no goroutine of it was started
\* or its channel is closed) answers ReadBatch with ErrNotConnected.
NotConnectedIsReported ==
    \A c \in Clients :
        (alloc[c].pc = "idle" \/ msgChan[c] = "closed") =>
            ReadBatchResult(c) = "notconnected"

\* C24: a Write or Read that is under way works on a connection that is
\* open: disconnect closes no connection that is in use.
NoOperationOnClosedConnection ==
    nats.op.pc = "busy" => nats.op.h \in nats.open

\* C25: an object is deleted only with delete_objects set and after its
\* message was acknowledged without an error.
DeletesOnlyProcessed ==
    \A o \in gcs.deleted : gcs.del /\ gcs.obj[o] = "acked"

\* Of three objects one was processed and deleted, one was rejected and
\* one could not be opened; the last two are still in the bucket.
DeletesOnlyProcessedWitness ==
    /\ gcs.del
    /\ gcs.listed = 3
    /\ \E a, b, c \in 1..3 :
         /\ gcs.obj[a] = "acked" /\ a \in gcs.deleted
         /\ gcs.obj[b] = "nacked" /\ b \notin gcs.deleted
         /\ gcs.obj[c] = "failed" /\ c \notin gcs.deleted

\* C26: when the stream fails to stop, Stop still stops the manager's
\* resources before it returns the error.
StopContinuesAfterFailure ==
    (svc.pc = "done" /\ svc.mgr /\ ~svc.streamStopped) =>
        (svc.dumped /\ svc.mgrStopped)

\* C27: Stop returns within the configured timeout, or within the default
\* of 30 s without one, counted from its call.
StopWithinTimeout ==
    svc.pc = "done" => svc.elapsed <= ExitTimeout

\* C28: when the context of the app ends while a stream runs, RunContext
\* returns nil if the stream stops within the close timeout, and else the
\* process exits with code 1; what the output acknowledged is in the output.
CancelStopsGracefully ==
    /\ svc.acked <= svc.written
    /\ svc.pc = "returned" => (svc.code = 0 /\ svc.streamStopped)
    /\ svc.pc = "exited" => (svc.code = 1 /\ ~svc.streamStopped)
    /\ (svc.pc = "done" /\ svc.streamStopped) => svc.code = 0
    /\ (svc.pc = "done" /\ ~svc.streamStopped) => svc.code = 1

\* Messages were written and acknowledged, the context ended, the stream
\* stopped in time and RunContext has returned.
CancelStopsGracefullyWitness ==
    /\ svc.pc = "returned"
    /\ svc.acked >= 2
    /\ svc.written > svc.acked
    /\ svc.elapsed > 0

\* C28 as stated: after the context has ended the app always comes back
\* with code 0.
CancelAlwaysReturnsNil ==
    svc.pc \in {"returned", "exited"} => (svc.pc = "returned" /\ svc.code = 0)

\* The allocation loop of c has claimed s and called runConsumer for it.
ClaimedAndStarted(c, s) ==
    /\ alloc[c].pc \in {"claiming", "stealing"}
    /\ alloc'[c] # alloc[c]
    /\ row'[s] # row[s]
    /\ row'[s].client = c

\* C31: within one instance no consumer is started for a shard for which a
\* consumer goroutine of that instance is still running.
OneConsumerPerInstance ==
    [][\A c \in Clients, s \in AllShards :
          ClaimedAndStarted(c, s) => cstate[c][s] \notin Running]_vars

\* C32: the message channel is closed at most once and only when every
\* consumer for which wg.Add was called has called wg.Done, whether it failed
\* to start or ran; once it is closed no consumer starts, none hands over a
\* message and the channel stays closed.
ClosedAfterEveryConsumer ==
    /\ [](\A c \in Clients :
            /\ closes[c] <= 1
            /\ msgChan[c] = "closed" =>
                  (closes[c] = 1 /\ \A s \in AllShards : cstate[c][s] = "None"))
    /\ [][\A c \in Clients :
            msgChan[c] = "closed" =>
               /\ msgChan'[c] = "closed"
               /\ \A s \in AllShards :
                     /\ cstate'[c][s] = "None"
                     /\ sentHi'[c][s] = sentHi[c][s]
                     /\ flight'[c][s] \subseteq flight[c][s]]_vars

\* The channel of a reader is closed after one of its consumers failed to
\* start and another one delivered a record that was acknowledged.
ClosedAfterEveryConsumerWitness ==
    \E c \in Clients :
        /\ msgChan[c] = "closed"
        /\ faults = 0
        /\ row[1].client = NoClient
        /\ ackedNil[1] # {}

\* C33: the allocation loop claims no shard, and starts no consumer for a
\* shard, that the listing of its pass reported as finished.
FinishedShardNeverClaimed ==
    [][\A c \in Clients, s \in AllShards :
          ClaimedAndStarted(c, s) => s \notin alloc[c].ended]_vars

\* C34: a pass turns to stealing only when its unclaimed map is empty, and a
\* pass that claims unclaimed shards ends without a steal; a steal takes a
\* shard from another client, never from the instance itself or from nobody;
\* and the steal that starts a consumer ends the pass.
ClaimBeforeSteal ==
    [][\A c \in Clients :
          /\ (alloc[c].pc = "pass" /\ alloc'[c].pc = "stealing") =>
                UnclaimedShards = {}
          /\ (alloc[c].pc = "pass" /\ UnclaimedShards # {} /\ alloc'[c] # alloc[c]) =>
                alloc'[c].pc = "claiming"
          /\ alloc[c].pc = "claiming" => alloc'[c].pc \in {"claiming", "pass"}
          /\ \A s \in AllShards :
                (alloc[c].pc = "stealing" /\ ClaimedAndStarted(c, s)) =>
                   /\ row[s].client \notin {c, NoClient}
                   /\ row[s].client \in alloc[c].left
                   /\ cstate'[c][s] \in Running => alloc'[c].pc = "pass"]_vars

\* More than two lease periods after the start a client has stolen a shard
\* whose former owner still runs its consumer.
ClaimBeforeStealWitness ==
    \E c \in Clients, s \in AllShards :
        /\ alloc[c].pc = "pass"
        /\ alloc[c].log # <<>>
        /\ row[s].client = c
        /\ cstate[c][s] = "Consuming"
        /\ \E d \in Clients \ {c} : cstate[d][s] \in Running
        /\ now > LeasePeriod * 2

ConnectNilMeansWatching ==
    nats.kind = "kv_in" =>
        /\ nats.connRet = "nil" => nats.handle # 0
        /\ nats.connRet = "err" => nats.natsConn = 0

\* C37: Pop returns the objects under the prefix in listing order, each
\* once; what is pending follows what was returned without a gap, also after
\* a listing that failed; at most a page is pending; the listing is read
\* only with nothing pending; io.EOF is returned only with every object
\* returned, and from then on by every Pop.
PopOncePerObject ==
    /\ [](/\ keyReader.popped = [i \in 1..Len(keyReader.popped) |-> i]
          /\ keyReader.popped \o keyReader.pending = [i \in 1..keyReader.it |-> i]
          /\ keyReader.it <= keyReader.n
          /\ Len(keyReader.pending) <= maxGCPCloudStorageListObjectsResults
          /\ (keyReader.made /\ keyReader.ret = "eof") =>
                Len(keyReader.popped) = keyReader.n)
    /\ [][/\ keyReader'.it # keyReader.it => keyReader.pending = <<>>
          /\ (keyReader.made /\ keyReader.ret = "eof") => keyReader'.ret = "eof"]_vars

\* Five objects were returned and then io.EOF, after a listing had failed in
\* the middle of a page.
PopOncePerObjectWitness ==
    /\ keyReader.ret = "eof"
    /\ Len(keyReader.popped) = MaxListed
    /\ keyReader.broke

\* C38: when no request is being served, every id with a running child has
\* a start record, and the configuration handed to Started for it is the
\* configuration of that child.
StartedIsRunning ==
    (\A h \in Handlers : dyn.hs[h].st = "idle") =>
        \A i \in Ids : dyn.child[i] # 0 =>
            (dyn.up[i] /\ dyn.started[i] = dyn.child[i])

FailedBootstrapLeavesNothing ==
    (pull.op = "bootstrap" /\ pull.ret = "err") =>
        /\ pull.confReader = 0
        /\ pull.mgr = 0
        /\ pull.stoppableMgr = 0
        /\ pull.boots \in pull.closed
        /\ ~(StreamRunning(pull) /\ pull.stoppableStream.mgr \in pull.stopped)

====
